---- MODULE Spec2Model ----
(***************************************************************************)
(* Portfolio backend: content schema, validation and admin transforms.     *)
(* Text is modelled as a sequence of one-character strings, so that the    *)
(* regular-expression and strip/split steps of the code act on characters. *)
(***************************************************************************)
EXTENDS Integers, Sequences, FiniteSets, TLC

(* ------------------------------------------------------------------ *)
(* Characters                                                          *)
(* ------------------------------------------------------------------ *)
UpperSeq == <<"A","B","C","D","E","F","G","H","I","J","K","L","M",
              "N","O","P","Q","R","S","T","U","V","W","X","Y","Z">>
LowerSeq == <<"a","b","c","d","e","f","g","h","i","j","k","l","m",
              "n","o","p","q","r","s","t","u","v","w","x","y","z">>
Lowercase == {LowerSeq[i] : i \in 1..Len(LowerSeq)}
Uppercase == {UpperSeq[i] : i \in 1..Len(UpperSeq)}
Digits == {"0","1","2","3","4","5","6","7","8","9"}
Whitespace == {" ", "\t", "\n"}

\* str.lower() on one character
LowerChar(c) ==
    IF c \in Uppercase
    THEN LowerSeq[CHOOSE i \in 1..Len(UpperSeq) : UpperSeq[i] = c]
    ELSE c

\* str.lower()
Lower(s) == [i \in 1..Len(s) |-> LowerChar(s[i])]

\* the class \w of Python's re on text
IsWordChar(c) == c \in Lowercase \cup Uppercase \cup Digits \cup {"_"}

\* the class [\w\s-]
IsKeptChar(c) == IsWordChar(c) \/ c \in Whitespace \/ c = "-"

\* the class [-\s]
IsSepChar(c) == c \in Whitespace \/ c = "-"

\* the class [a-z0-9-]
IsSlugChar(c) == c \in Lowercase \cup Digits \cup {"-"}

\* str.strip(): drop leading and trailing whitespace
RECURSIVE LStrip(_)
LStrip(s) ==
    IF s # <<>> /\ Head(s) \in Whitespace THEN LStrip(Tail(s)) ELSE s

RECURSIVE RStrip(_)
RStrip(s) ==
    IF s # <<>> /\ s[Len(s)] \in Whitespace
    THEN RStrip(SubSeq(s, 1, Len(s) - 1))
    ELSE s

Strip(s) == RStrip(LStrip(s))

(* ------------------------------------------------------------------ *)
(* ProjectAdmin.generate_slug                                          *)
(* ------------------------------------------------------------------ *)
\* the removal with the class [^\w\s], which also drops hyphens
RemoveUnkept_DropsHyphen(s) == SelectSeq(s, LAMBDA c : IsWordChar(c) \/ c \in Whitespace)

\* re.sub(r'[^\w\s-]', '', slug)
RemoveUnkept(s) == SelectSeq(s, IsKeptChar)

\* re.sub(r'[-\s]+', '-', slug): every maximal run becomes one hyphen
RECURSIVE CollapseSeps(_)
CollapseSeps(s) ==
    IF s = <<>> THEN <<>>
    ELSE IF IsSepChar(Head(s))
         THEN IF Len(s) > 1 /\ IsSepChar(s[2])
              THEN CollapseSeps(Tail(s))
              ELSE <<"-">> \o CollapseSeps(Tail(s))
         ELSE <<Head(s)>> \o CollapseSeps(Tail(s))

\* str.strip('-')
RECURSIVE LStripHyphen(_)
LStripHyphen(s) ==
    IF s # <<>> /\ Head(s) = "-" THEN LStripHyphen(Tail(s)) ELSE s

RECURSIVE RStripHyphen(_)
RStripHyphen(s) ==
    IF s # <<>> /\ s[Len(s)] = "-"
    THEN RStripHyphen(SubSeq(s, 1, Len(s) - 1))
    ELSE s

StripHyphens(s) == RStripHyphen(LStripHyphen(s))

\* the derivation without the lower-casing step
generate_slug_NoLower(title) == StripHyphens(CollapseSeps(RemoveUnkept(title)))

generate_slug(title) == StripHyphens(CollapseSeps(RemoveUnkept(Lower(title))))

(* ------------------------------------------------------------------ *)
(* ProjectSchema.validate_slug_format                                  *)
(* ------------------------------------------------------------------ *)
\* re.match(r"^[a-z0-9-]+$", slug): "$" also matches before one final newline
MatchesSlugPattern(slug) ==
    LET body == IF slug # <<>> /\ slug[Len(slug)] = "\n"
                THEN SubSeq(slug, 1, Len(slug) - 1)
                ELSE slug
    IN  /\ body # <<>>
        /\ \A i \in 1..Len(body) : IsSlugChar(body[i])

(* ------------------------------------------------------------------ *)
(* Text helpers used by the admin transforms                           *)
(* ------------------------------------------------------------------ *)
\* str.split(sep) for a one-character separator: always at least one piece
RECURSIVE Split(_, _)
Split(s, sep) ==
    IF \A i \in 1..Len(s) : s[i] # sep THEN <<s>>
    ELSE LET k == CHOOSE i \in 1..Len(s) :
                      s[i] = sep /\ \A j \in 1..(i - 1) : s[j] # sep
         IN  <<SubSeq(s, 1, k - 1)>> \o Split(SubSeq(s, k + 1, Len(s)), sep)

\* [x.strip() for x in text.split(sep) if x.strip()]
RECURSIVE StripNonEmpty(_)
StripNonEmpty(parts) ==
    IF parts = <<>> THEN <<>>
    ELSE IF Strip(Head(parts)) # <<>>
         THEN <<Strip(Head(parts))>> \o StripNonEmpty(Tail(parts))
         ELSE StripNonEmpty(Tail(parts))

SplitList(text, sep) == StripNonEmpty(Split(text, sep))

\* str.split() with no argument: pieces between runs of whitespace
RECURSIVE SplitWhitespace(_)
SplitWhitespace(s) ==
    LET t == LStrip(s) IN
    IF t = <<>> THEN <<>>
    ELSE IF \A i \in 1..Len(t) : t[i] \notin Whitespace THEN <<t>>
    ELSE LET k == CHOOSE i \in 1..Len(t) :
                      t[i] \in Whitespace /\ \A j \in 1..(i - 1) : t[j] \notin Whitespace
         IN  <<SubSeq(t, 1, k - 1)>> \o SplitWhitespace(SubSeq(t, k + 1, Len(t)))

\* sep.join(parts)
RECURSIVE Join(_, _)
Join(parts, sep) ==
    IF parts = <<>> THEN <<>>
    ELSE IF Len(parts) = 1 THEN Head(parts)
    ELSE Head(parts) \o sep \o Join(Tail(parts), sep)

(* ------------------------------------------------------------------ *)
(* Cover image upload (ProjectAdmin.on_model_change, image part)       *)
(* ------------------------------------------------------------------ *)
\* the class [A-Za-z0-9_.-] kept by secure_filename
IsFilenameChar(c) == IsWordChar(c) \/ c \in {".", "-"}

RECURSIVE StripDotUnderscoreL(_)
StripDotUnderscoreL(s) ==
    IF s # <<>> /\ Head(s) \in {".", "_"} THEN StripDotUnderscoreL(Tail(s)) ELSE s

RECURSIVE StripDotUnderscoreR(_)
StripDotUnderscoreR(s) ==
    IF s # <<>> /\ s[Len(s)] \in {".", "_"}
    THEN StripDotUnderscoreR(SubSeq(s, 1, Len(s) - 1))
    ELSE s

\* secure_filename(name): path separators become spaces, whitespace runs
\* become "_", characters outside [A-Za-z0-9_.-] go, "._" stripped at both ends
secure_filename(name) ==
    LET spaced == [i \in 1..Len(name) |-> IF name[i] = "/" THEN " " ELSE name[i]]
        joined == Join(SplitWhitespace(spaced), <<"_">>)
    IN  StripDotUnderscoreR(StripDotUnderscoreL(SelectSeq(joined, IsFilenameChar)))

AllowedExtensions ==
    { <<"j","p","g">>, <<"j","p","e","g">>, <<"p","n","g">>,
      <<"w","e","b","p">>, <<"g","i","f">> }

\* FileExt without the lower-casing
FileExt_CaseSensitive(filename) ==
    IF \E i \in 1..Len(filename) : filename[i] = "."
    THEN LET k == CHOOSE i \in 1..Len(filename) :
                      filename[i] = "." /\ \A j \in (i + 1)..Len(filename) : filename[j] # "."
         IN  SubSeq(filename, k + 1, Len(filename))
    ELSE <<>>

\* filename.rsplit('.', 1)[1].lower() if '.' in filename else ''
FileExt(filename) ==
    IF \E i \in 1..Len(filename) : filename[i] = "."
    THEN LET k == CHOOSE i \in 1..Len(filename) :
                      filename[i] = "." /\ \A j \in (i + 1)..Len(filename) : filename[j] # "."
         IN  Lower(SubSeq(filename, k + 1, Len(filename)))
    ELSE <<>>

ImageBase == <<"c","o","n","t","e","n","t","/","i","m","a","g","e","s","/",
               "p","r","o","j","e","c","t","s","/">>

(* ------------------------------------------------------------------ *)
(* State                                                               *)
(* ------------------------------------------------------------------ *)
VARIABLES
    projects,   \* committed rows of the table "projects"
    nextId,     \* next primary key of "projects"
    req,        \* per admin request: position, form, model being written, outcome
    slugIn,     \* text handed to generate_slug
    slugOut,    \* what generate_slug returned for it
    experience, \* the stored row of the table "experience" under study
    today,      \* date.today() of the server
    shown,      \* duration of that row in the last GET /api/experience
    messages,   \* committed rows of the table "contact_messages"
    submitted,  \* payload of the last POST /api/contact
    response,   \* what that POST was answered with
    cand,       \* the input last handed to a schema's load
    verdict,    \* the errors that load reported
    metas,      \* committed rows of the table "site_meta", in id order
    metaOut,    \* outcome of the last admin write of a SiteMeta
    written,    \* bullets and tech text of the last admin Experience write
    editForm,   \* bullets and tech text of the open Experience edit form
    metaRead,   \* what the last GET /api/meta was answered with
    catalog,    \* rows of "projects" as GET /api/projects reads them
    listing,    \* the featured parameter of the last listing and its answer
    fieldName,  \* identifier handed to the field-name transforms
    converted,  \* the transforms applied to it so far, and their results
    session,    \* the admin session: its admin_authenticated key, if any
    authLog,    \* the session's login and logout requests, oldest first
    page        \* the last admin page asked for and what was served

projectVars == <<projects, nextId, req>>
slugVars == <<slugIn, slugOut>>
experienceVars == <<experience, today, shown, written, editForm>>
contactVars == <<messages, submitted, response>>
validateVars == <<cand, verdict>>
siteMetaVars == <<metas, metaOut, metaRead>>
listingVars == <<catalog, listing>>
nameVars == <<fieldName, converted>>
authVars == <<session, authLog, page>>

\* what the operations on one part of the state leave alone
notProjectVars ==
    <<slugVars, experienceVars, contactVars, validateVars,
      siteMetaVars, listingVars, nameVars, authVars>>
notSlugVars ==
    <<projectVars, experienceVars, contactVars, validateVars,
      siteMetaVars, listingVars, nameVars, authVars>>
notExperienceVars ==
    <<projectVars, slugVars, contactVars, validateVars,
      siteMetaVars, listingVars, nameVars, authVars>>
notContactVars ==
    <<projectVars, slugVars, experienceVars, validateVars,
      siteMetaVars, listingVars, nameVars, authVars>>
notValidateVars ==
    <<projectVars, slugVars, experienceVars, contactVars,
      siteMetaVars, listingVars, nameVars, authVars>>
notSiteMetaVars ==
    <<projectVars, slugVars, experienceVars, contactVars,
      validateVars, listingVars, nameVars, authVars>>
notListingVars ==
    <<projectVars, slugVars, experienceVars, contactVars,
      validateVars, siteMetaVars, nameVars, authVars>>
notNameVars ==
    <<projectVars, slugVars, experienceVars, contactVars,
      validateVars, siteMetaVars, listingVars, authVars>>
notAuthVars ==
    <<projectVars, slugVars, experienceVars, contactVars,
      validateVars, siteMetaVars, listingVars, nameVars>>

vars == <<projects, nextId, req, slugIn, slugOut, experience, today, shown,
          messages, submitted, response, cand, verdict, metas, metaOut,
          written, editForm, metaRead, catalog, listing, fieldName, converted,
          session, authLog, page>>

(* ------------------------------------------------------------------ *)
(* Bounds and inputs of the project writes                             *)
(* ------------------------------------------------------------------ *)
MaxProjects == 2

\* the admin requests that may be in flight together
Requests == {"r1", "r2"}

NoId == 0
NoText == <<>>
NoUpload == <<"(none)">>

TitleHello == <<"H","e","l","l","o",","," ","W","o","r","l","d","!"," ","2","0","2","4">>
SlugHello == <<"h","e","l","l","o","-","w","o","r","l","d","-","2","0","2","4">>
TitleMyProject == <<"M","y"," ","P","r","o","j","e","c","t">>
SlugMyProject == <<"m","y","-","p","r","o","j","e","c","t">>
TitleBangs == <<"!","!">>
SlugMySlug == <<"M","y"," ","S","l","u","g","!">>

\* titles pass DataRequired: never empty, never only whitespace
ProjectTitles == {TitleHello, TitleMyProject, TitleBangs}
ProjectSlugs == {NoText, SlugMyProject, SlugMySlug}
ProjectForm(title, slug) ==
    [title |-> title, slug |-> slug, tech |-> NoText, upload |-> NoUpload]

\* the submitted forms: slug left empty, supplied and valid, supplied and malformed
ProjectForms ==
    { ProjectForm(TitleHello, NoText), ProjectForm(TitleMyProject, NoText),
      ProjectForm(TitleBangs, NoText), ProjectForm(TitleBangs, SlugMyProject),
      ProjectForm(TitleBangs, SlugMySlug), ProjectForm(TitleHello, SlugMySlug) }

\* outcome of a request's last write, the slug that write resolved to and
\* the name of the file uploaded with it
NoOutcome == [kind |-> "none", op |-> "none", slug |-> NoText, upload |-> NoUpload]
NoForm == [title |-> NoText, slug |-> NoText, tech |-> NoText, upload |-> NoUpload]
NoModel == [id |-> NoId, title |-> NoText, slug |-> NoText,
            tech |-> [list |-> FALSE, v |-> NoText], cover_image |-> NoText]
IdleReq == [pc |-> "idle", op |-> "none", form |-> NoForm,
            model |-> NoModel, last |-> NoOutcome]

(* ------------------------------------------------------------------ *)
(* ProjectAdmin.on_model_change                                        *)
(* ------------------------------------------------------------------ *)
\* form.populate_obj(model): the form's columns are copied onto the model;
\* tech arrives as the submitted text
ProjectPopulate(form, base) ==
    [base EXCEPT !.title = form.title,
                 !.slug = form.slug,
                 !.tech = [list |-> FALSE, v |-> form.tech]]

\* if not model.slug and model.title: model.slug = generate_slug(model.title)
ResolveSlug(model) ==
    IF model.slug = NoText /\ model.title # NoText
    THEN [model EXCEPT !.slug = generate_slug(model.title)]
    ELSE model

\* Project.query.filter(Project.slug == model.slug, Project.id != model.id).first()
SlugTaken(model, rows) ==
    \E p \in rows : p.slug = model.slug /\ p.id # model.id

\* the handler: a result with raised = TRUE stands for the ValueError
ProjectOnModelChange(form, model, rows) ==
    LET m1 == ResolveSlug(model)
        m2 == IF form.tech # NoText
              THEN [m1 EXCEPT !.tech = [list |-> TRUE, v |-> SplitList(form.tech, ",")]]
              ELSE m1
        filename == secure_filename(form.upload)
    IN  IF m1.slug # NoText /\ SlugTaken(m1, rows)
        THEN [raised |-> TRUE, model |-> m1, error |-> "SlugExists"]
        ELSE IF form.upload # NoUpload /\ FileExt(filename) \notin AllowedExtensions
        THEN [raised |-> TRUE, model |-> m2, error |-> "InvalidFileType"]
        ELSE IF form.upload # NoUpload
        THEN [raised |-> FALSE, error |-> "none",
              model |-> [m2 EXCEPT !.cover_image = ImageBase \o filename]]
        ELSE [raised |-> FALSE, model |-> m2, error |-> "none"]

(* ------------------------------------------------------------------ *)
(* Storage: the table "projects"                                       *)
(* ------------------------------------------------------------------ *)
\* the column without its unique index
SlugUniqueInTable_NoIndex(row, rows) == TRUE

\* slug = Column(String(200), unique=True, nullable=False)
SlugUniqueInTable(row, rows) ==
    \A p \in rows : p.id # row.id => p.slug # row.slug

Pending(op) == {r \in Requests : req[r].pc = "checked" /\ req[r].op = op}

(* ------------------------------------------------------------------ *)
(* Admin project writes: the view runs the handler, then commits       *)
(* ------------------------------------------------------------------ *)
\* a raise ends the request: the session is rolled back, the error is shown
StartWrite(r, op, form, base) ==
    LET res == ProjectOnModelChange(form, ProjectPopulate(form, base), projects)
    IN  /\ req[r].pc = "idle"
        /\ req' = [req EXCEPT ![r] =
                     IF res.raised
                     THEN [IdleReq EXCEPT !.last =
                             [kind |-> res.error, op |-> op, slug |-> res.model.slug,
                              upload |-> form.upload]]
                     ELSE [pc |-> "checked", op |-> op, form |-> form,
                           model |-> res.model, last |-> NoOutcome]]
        /\ UNCHANGED <<projects, nextId>>

\* create view: a new instance, populated, handled
ProjectCreate(r, form) ==
    /\ Cardinality(projects) + Cardinality(Pending("create")) < MaxProjects
    /\ StartWrite(r, "create", form, NoModel)
    /\ UNCHANGED notProjectVars

\* edit view: the stored instance, populated, handled
ProjectUpdate(r, p, form) ==
    /\ p \in projects
    /\ StartWrite(r, "update", form, p)
    /\ UNCHANGED notProjectVars

\* session.commit(): the row is written unless the unique index refuses it
ProjectCommit(r) ==
    /\ req[r].pc = "checked"
    /\ UNCHANGED notProjectVars
    /\ LET m == req[r].model
           row == IF req[r].op = "create" THEN [m EXCEPT !.id = nextId] ELSE m
           others == {p \in projects : p.id # row.id}
       IN  IF SlugUniqueInTable(row, projects)
           THEN /\ projects' = others \cup {row}
                /\ nextId' = IF req[r].op = "create" THEN nextId + 1 ELSE nextId
                /\ req' = [req EXCEPT ![r] = [IdleReq EXCEPT !.last =
                             [kind |-> "stored", op |-> req[r].op, slug |-> row.slug,
                              upload |-> req[r].form.upload]]]
           ELSE /\ req' = [req EXCEPT ![r] = [IdleReq EXCEPT !.last =
                             [kind |-> "IntegrityError", op |-> req[r].op, slug |-> row.slug,
                              upload |-> req[r].form.upload]]]
                /\ UNCHANGED <<projects, nextId>>

FilePhotoUpper == <<"p","h","o","t","o",".","J","P","G">>
FileMyPic == <<"m","y"," ","p","i","c",".","p","n","g">>
FileShot == <<"s","h","o","t",".","w","e","b","p">>
FileTarGz == <<"a",".","t","a","r",".","g","z">>
FileNoExt == <<"n","o","e","x","t">>
FileDotPng == <<".","p","n","g">>
FilePasswd == <<".",".","/","e","t","c","/","p","a","s","s","w","d">>
FileBangs == <<"!","!","!">>

\* names of uploaded files: allowed extensions in either case, a name that
\* sanitizing changes, other extensions, no extension, a path, no name left
UploadNames ==
    {NoUpload, FilePhotoUpper, FileMyPic, FileShot, FileTarGz, FileNoExt,
     FileDotPng, FilePasswd, FileBangs}

\* the forms of one project, each with a file or without
UploadForms ==
    {[ProjectForm(TitleHello, NoText) EXCEPT !.upload = u] : u \in UploadNames}

\* the admin project writes with a cover image uploaded
UploadNext ==
    \/ \E r \in Requests, form \in UploadForms : ProjectCreate(r, form)
    \/ \E r \in Requests, p \in projects, form \in UploadForms : ProjectUpdate(r, p, form)
    \/ \E r \in Requests : ProjectCommit(r)

ProjectInit ==
    /\ projects = {}
    /\ nextId = 1
    /\ req = [r \in Requests |-> IdleReq]

ProjectIdle == ProjectInit

ProjectNext ==
    \/ \E r \in Requests, form \in ProjectForms : ProjectCreate(r, form)
    \/ \E r \in Requests, p \in projects, form \in ProjectForms : ProjectUpdate(r, p, form)
    \/ \E r \in Requests : ProjectCommit(r)

(* ------------------------------------------------------------------ *)
(* Slug derivation on its own                                          *)
(* ------------------------------------------------------------------ *)
MaxTitleLen == 3

SlugAlphabet == {"a", "B", "1", "-", " ", "!", "_", "\n"}

RECURSIVE TextsUpTo(_, _)
TextsUpTo(alphabet, n) ==
    IF n = 0 THEN {<<>>}
    ELSE LET shorter == TextsUpTo(alphabet, n - 1)
         IN  shorter \cup {Append(t, c) : t \in shorter, c \in alphabet}

SlugTitles == TextsUpTo(SlugAlphabet, MaxTitleLen)

\* marks "generate_slug has not run on slugIn"
NotDerived == <<"(not derived)">>

SlugInit ==
    /\ slugIn \in SlugTitles
    /\ slugOut = NotDerived

SlugIdle ==
    /\ slugIn = NoText
    /\ slugOut = NotDerived

\* slug = generate_slug(title)
DeriveSlug ==
    /\ slugOut = NotDerived
    /\ slugOut' = generate_slug(slugIn)
    /\ UNCHANGED slugIn
    /\ UNCHANGED notSlugVars

\* the derived slug is kept as the slug and derived from again
RederiveSlug ==
    /\ slugOut # NotDerived
    /\ slugOut # slugIn
    /\ slugIn' = slugOut
    /\ slugOut' = NotDerived
    /\ UNCHANGED notSlugVars

SlugNext == DeriveSlug \/ RederiveSlug

(* ------------------------------------------------------------------ *)
(* Experience: admin writes and the duration shown by the read API     *)
(* ------------------------------------------------------------------ *)
BaseYear == 2022
MaxYears == 2
MonthsPerYear == 12

Date(y, m, d) == [year |-> y, month |-> m, day |-> d]
NoDate == [year |-> 0, month |-> 0, day |-> 0]

\* the dates the forms and the clock take: the first day of each month
\* (calculate_duration reads only the year and the month)
ModelDates ==
    {Date(y, m, 1) : y \in BaseYear..(BaseYear + MaxYears), m \in 1..MonthsPerYear}

FirstDate == Date(BaseYear, 1, 1)
LastDate == Date(BaseYear + MaxYears, MonthsPerYear, 1)

NoExperience == [start_date |-> NoDate, end_date |-> NoDate,
                 bullets |-> [list |-> FALSE, v |-> NoText],
                 tech |-> [list |-> FALSE, v |-> NoText]]
NotShown == "(not shown)"

ExperienceForm(start, end) ==
    [start_date |-> start, end_date |-> end, bullets |-> NoText, tech |-> NoText]

\* what the two text areas hold: nothing typed, or the form is not open
NoTexts == [bullets |-> NoText, tech |-> NoText]
NoEdit == [bullets |-> <<"(closed)">>, tech |-> <<"(closed)">>]

\* texts typed into the tech field (comma-separated)
TechTexts ==
    {NoText, <<",">>, <<"a">>, <<"a",",","b">>,
     <<" ","a"," ",","," ","b"," ">>, <<" ",","," ","b",",",","," ","a"," ">>}

\* texts typed into the bullets field (one per line)
BulletTexts ==
    {NoText, <<"\n">>, <<"x">>, <<"x","\n","y">>,
     <<" ","x"," ","\n","\n"," ","y"," ">>, <<"x",","," ","y","\n"," ","\n","z">>}

\* forms with typed lists, on fixed dates
ExperienceTextForms ==
    {[start_date |-> Date(BaseYear, 1, 1), end_date |-> NoDate,
      bullets |-> b, tech |-> t] : b \in BulletTexts, t \in TechTexts}

\* start_date has DataRequired; end_date may be left empty
ExperienceForms ==
    {ExperienceForm(s, e) : s \in ModelDates, e \in ModelDates \cup {NoDate}}

\* form.populate_obj(model)
ExperiencePopulate(form) ==
    [start_date |-> form.start_date, end_date |-> form.end_date,
     bullets |-> [list |-> FALSE, v |-> form.bullets],
     tech |-> [list |-> FALSE, v |-> form.tech]]

\* ExperienceAdmin.on_model_change: only the two text lists are touched
ExperienceOnModelChange(form, model) ==
    LET m1 == IF form.bullets # NoText
              THEN [model EXCEPT !.bullets =
                      [list |-> TRUE, v |-> SplitList(form.bullets, "\n")]]
              ELSE model
    IN  IF form.tech # NoText
        THEN [m1 EXCEPT !.tech = [list |-> TRUE, v |-> SplitList(form.tech, ",")]]
        ELSE m1

\* on_form_prefill for one list field: a non-empty list is joined; any other
\* value stays the field's data, which the text area shows as str(value)
PrefillText(value, sep) ==
    IF value.list /\ value.v # <<>> THEN Join(value.v, sep)
    ELSE IF value.list THEN <<"[", "]">>
    ELSE value.v

\* ExperienceAdmin.on_form_prefill
ExperiencePrefill(row) ==
    [bullets |-> PrefillText(row.bullets, <<"\n">>),
     tech |-> PrefillText(row.tech, <<",", " ">>)]

Plural(n) == IF n # 1 THEN "s" ELSE ""

\* ExperienceSchema.calculate_duration, with date.today() passed in
calculate_duration(obj, now) ==
    LET start == obj.start_date
        end == IF obj.end_date # NoDate THEN obj.end_date ELSE now
        years0 == end.year - start.year
        months0 == end.month - start.month
        years == IF months0 < 0 THEN years0 - 1 ELSE years0
        months == IF months0 < 0 THEN months0 + MonthsPerYear ELSE months0
    IN  IF years > 0 /\ months > 0
        THEN ToString(years) \o " yr" \o Plural(years) \o " "
               \o ToString(months) \o " mo" \o Plural(months)
        ELSE IF years > 0 THEN ToString(years) \o " yr" \o Plural(years)
        ELSE IF months > 0 THEN ToString(months) \o " mo" \o Plural(months)
        ELSE "Less than 1 month"

\* create view of ExperienceAdmin: the row is stored as the handler leaves it
ExperienceCreate(form) ==
    /\ experience = NoExperience
    /\ experience' = ExperienceOnModelChange(form, ExperiencePopulate(form))
    /\ written' = [bullets |-> form.bullets, tech |-> form.tech]
    /\ editForm' = NoEdit
    /\ shown' = NotShown
    /\ UNCHANGED today
    /\ UNCHANGED notExperienceVars

\* edit view of ExperienceAdmin: the form comes prefilled with the stored
\* dates and the end date is cleared or set to the current month
ExperienceUpdate(end) ==
    /\ experience # NoExperience
    /\ end # experience.end_date
    /\ LET form == [ExperienceForm(experience.start_date, end) EXCEPT
                        !.bullets = ExperiencePrefill(experience).bullets,
                        !.tech = ExperiencePrefill(experience).tech]
       IN  /\ experience' = ExperienceOnModelChange(form, ExperiencePopulate(form))
           /\ written' = [bullets |-> form.bullets, tech |-> form.tech]
    /\ editForm' = NoEdit
    /\ shown' = NotShown
    /\ UNCHANGED today
    /\ UNCHANGED notExperienceVars

\* GET /api/experience: experiences_schema.dump computes the duration
GetExperience ==
    /\ experience # NoExperience
    /\ shown' = calculate_duration(experience, today)
    /\ UNCHANGED <<experience, today, written, editForm>>
    /\ UNCHANGED notExperienceVars

\* the server's date moves on to the next month
MonthPasses ==
    /\ today # LastDate
    /\ today' = IF today.month = MonthsPerYear
                THEN Date(today.year + 1, 1, today.day)
                ELSE Date(today.year, today.month + 1, today.day)
    /\ UNCHANGED <<experience, shown, written, editForm>>
    /\ UNCHANGED notExperienceVars

\* GET of the edit view: the form opens with the stored lists as text
ExperienceOpenEdit ==
    /\ experience # NoExperience
    /\ editForm = NoEdit
    /\ editForm' = ExperiencePrefill(experience)
    /\ UNCHANGED <<experience, today, shown, written>>
    /\ UNCHANGED notExperienceVars

\* POST of the edit view with the two text areas as they were opened
ExperienceSaveEdit ==
    /\ editForm # NoEdit
    /\ LET form == [start_date |-> experience.start_date,
                    end_date |-> experience.end_date,
                    bullets |-> editForm.bullets, tech |-> editForm.tech]
       IN  experience' = ExperienceOnModelChange(form, ExperiencePopulate(form))
    /\ written' = editForm
    /\ editForm' = NoEdit
    /\ shown' = NotShown
    /\ UNCHANGED today
    /\ UNCHANGED notExperienceVars

ExperienceInit ==
    /\ experience = NoExperience
    /\ today = FirstDate
    /\ shown = NotShown
    /\ written = NoTexts
    /\ editForm = NoEdit

ExperienceIdle == ExperienceInit

ExperienceNext ==
    \/ \E form \in ExperienceForms : ExperienceCreate(form)
    \/ \E end \in {NoDate, today} : ExperienceUpdate(end)
    \/ GetExperience
    \/ MonthPasses

\* the edit round of the two list fields
ExperienceTextNext ==
    \/ \E form \in ExperienceTextForms : ExperienceCreate(form)
    \/ ExperienceOpenEdit
    \/ ExperienceSaveEdit

(* ------------------------------------------------------------------ *)
(* ContactMessageSchema.load                                           *)
(* ------------------------------------------------------------------ *)
MinNameLen == 1
MaxNameLen == 200
MaxEmailLen == 200
MinMessageLen == 10
MaxMessageLen == 5000

\* a key the payload does not carry
Missing == <<"(missing)">>

Spaces(n) == [i \in 1..n |-> " "]
Letters(n) == [i \in 1..n |-> "x"]

\* s contains the character c
HasChar(s, c) == \E i \in 1..Len(s) : s[i] = c

\* validate.Email, in outline: one "@" splits a non-empty user part without
\* blanks from a domain of two or more non-empty dot-separated labels
IsEmail(s) ==
    /\ HasChar(s, "@")
    /\ LET k == CHOOSE i \in 1..Len(s) :
                    s[i] = "@" /\ \A j \in (i + 1)..Len(s) : s[j] # "@"
           user == SubSeq(s, 1, k - 1)
           labels == Split(SubSeq(s, k + 1, Len(s)), ".")
       IN  /\ user # <<>>
           /\ \A i \in 1..Len(user) : user[i] \notin Whitespace \cup {"@"}
           /\ Len(labels) >= 2
           /\ \A i \in 1..Len(labels) :
                 /\ labels[i] # <<>>
                 /\ \A j \in 1..Len(labels[i]) :
                       IsWordChar(labels[i][j]) \/ labels[i][j] = "-"

\* errors are pairs <<key, message>>; "_schema" keys the cross-field ones
RequiredError(key) == <<key, "Missing data for required field.">>
UnknownError(key) == <<key, "Unknown field.">>
NameLengthError == <<"name", "Length must be between 1 and 200.">>
EmailSyntaxError == <<"email", "Not a valid email address.">>
EmailLengthError == <<"email", "Longer than maximum length 200.">>
MessageLengthError == <<"message", "Length must be between 10 and 5000.">>
MessageContentError == <<"_schema", "Message must be at least 10 characters long">>

\* the declared fields with unknown keys left out instead of reported
ContactFieldErrors_IgnoreUnknown(data) ==
    {RequiredError(k) : k \in {f \in {"name", "email", "message"} : data[f] = Missing}}
    \cup (IF data.name # Missing
             /\ (Len(data.name) < MinNameLen \/ Len(data.name) > MaxNameLen)
          THEN {NameLengthError} ELSE {})
    \cup (IF data.email # Missing /\ ~IsEmail(data.email)
          THEN {EmailSyntaxError} ELSE {})
    \cup (IF data.email # Missing /\ Len(data.email) > MaxEmailLen
          THEN {EmailLengthError} ELSE {})
    \cup (IF data.message # Missing
             /\ (Len(data.message) < MinMessageLen \/ Len(data.message) > MaxMessageLen)
          THEN {MessageLengthError} ELSE {})

\* the declared fields: required, then their validators; a key that is not
\* a load field (the dump-only id, createdAt and replied included) is unknown
ContactFieldErrors(data) ==
    {RequiredError(k) : k \in {f \in {"name", "email", "message"} : data[f] = Missing}}
    \cup {UnknownError(k) : k \in data.extra}
    \cup (IF data.name # Missing
             /\ (Len(data.name) < MinNameLen \/ Len(data.name) > MaxNameLen)
          THEN {NameLengthError} ELSE {})
    \cup (IF data.email # Missing /\ ~IsEmail(data.email)
          THEN {EmailSyntaxError} ELSE {})
    \cup (IF data.email # Missing /\ Len(data.email) > MaxEmailLen
          THEN {EmailLengthError} ELSE {})
    \cup (IF data.message # Missing
             /\ (Len(data.message) < MinMessageLen \/ Len(data.message) > MaxMessageLen)
          THEN {MessageLengthError} ELSE {})

\* ContactMessageSchema.validate_message_content
validate_message_content(data) ==
    IF data.message # Missing /\ Len(Strip(data.message)) < MinMessageLen
    THEN {MessageContentError}
    ELSE {}

\* contact_message_schema.load(data): the @validates_schema method is run
\* only when no field reported an error
ContactLoad(data) ==
    IF ContactFieldErrors(data) # {}
    THEN ContactFieldErrors(data)
    ELSE validate_message_content(data)

(* ------------------------------------------------------------------ *)
(* POST /api/contact                                                   *)
(* ------------------------------------------------------------------ *)
MaxMessages == 1

NameAl == <<"A","l">>
EmailGood == <<"a","@","b",".","c","o">>
EmailBad == <<"a","b",".","c","o">>
\* "   short   "
MessagePaddedShort == Spaces(3) \o <<"s","h","o","r","t">> \o Spaces(3)

\* messages around the lower length bound, bare and padded with blanks
ContactTexts ==
    {Spaces(p) \o Letters(n) \o Spaces(p) :
        p \in {0, 3}, n \in {0, 5, MinMessageLen - 1, MinMessageLen}}
    \cup {MessagePaddedShort}

\* messages around the upper length bound, bare and padded with blanks
LongTexts ==
    {Letters(MaxMessageLen), Letters(MaxMessageLen + 1),
     Letters(MaxMessageLen) \o Spaces(1),
     Spaces(3) \o Letters(MaxMessageLen - 6) \o Spaces(3)}

\* keys a payload may carry besides name, email and message
ExtraKeys == {"id", "createdAt", "replied", "website"}

\* every combination of the small values sent as JSON; then the long
\* messages and the other extra keys, each with the remaining keys valid; then
\* two bodies that are not JSON
ContactPayloads ==
    [json : {TRUE},
     name : {Missing, NoText, NameAl},
     email : {Missing, EmailBad, EmailGood},
     message : {Missing} \cup ContactTexts,
     extra : {{}, {"id"}}]
    \cup [json : {TRUE}, name : {NameAl}, email : {EmailGood},
          message : LongTexts, extra : {{}}]
    \cup [json : {TRUE}, name : {NameAl}, email : {EmailGood},
          message : {Letters(MinMessageLen)},
          extra : {{k} : k \in ExtraKeys} \cup {{"id", "replied"}}]
    \cup [json : {FALSE}, name : {NameAl}, email : {EmailGood},
          message : {Letters(MinMessageLen), MessagePaddedShort}, extra : {{}}]

NoPayload == [json |-> FALSE, name |-> Missing, email |-> Missing,
              message |-> Missing, extra |-> {}]
NoResponse == [status |-> 0, code |-> "none", details |-> {},
               commit |-> "not attempted", sendgrid |-> "not attempted",
               mail |-> "not attempted"]

\* if not data
IsEmptyPayload(data) ==
    data.name = Missing /\ data.email = Missing /\ data.message = Missing
    /\ data.extra = {}

\* what the mail service may do with a notification: no API key is set, the
\* API answers 200/201/202, it answers another status, the client raises
MailOutcomes == {"unconfigured", "accepted", "refused", "raises"}

\* the function without its try/except
send_contact_email_Unguarded(outcome) ==
    IF outcome = "accepted" THEN "sent"
    ELSE IF outcome = "raises" THEN "raised"
    ELSE "failed"

\* send_contact_email: "sent" for True, "failed" for False; the except
\* branch turns every exception into False
send_contact_email(outcome) ==
    IF outcome = "accepted" THEN "sent" ELSE "failed"

\* the commit with a failure leaving the added row behind
CommitMessage_NoRollback(rows, data, committed) ==
    rows \cup {[id |-> Cardinality(rows) + 1, name |-> data.name,
                email |-> data.email, message |-> data.message,
                created_at |-> Cardinality(rows) + 1, replied |-> FALSE]}

\* ContactMessage(name, email, message), session.add, session.commit: the
\* row gets the next id, the instant of the insert and replied = False; a
\* failed commit is rolled back
CommitMessage(rows, data, committed) ==
    IF committed
    THEN rows \cup {[id |-> Cardinality(rows) + 1, name |-> data.name,
                     email |-> data.email, message |-> data.message,
                     created_at |-> Cardinality(rows) + 1, replied |-> FALSE]}
    ELSE rows

\* submit_contact: committed says whether db.session.commit() goes through,
\* outcome is what the mail service does when it is called
submit_contact(data, committed, outcome) ==
    /\ Cardinality(messages) < MaxMessages
    /\ submitted' = data
    /\ IF ~data.json
       THEN /\ response' = [NoResponse EXCEPT
                              !.status = 400, !.code = "VALIDATION_ERROR",
                              !.details = {<<"content-type", "Must be application/json">>}]
            /\ UNCHANGED messages
       ELSE IF IsEmptyPayload(data)
       THEN /\ response' = [NoResponse EXCEPT
                              !.status = 400, !.code = "VALIDATION_ERROR"]
            /\ UNCHANGED messages
       ELSE IF ContactLoad(data) # {}
       THEN /\ response' = [NoResponse EXCEPT
                              !.status = 400, !.code = "VALIDATION_ERROR",
                              !.details = ContactLoad(data)]
            /\ UNCHANGED messages
       ELSE IF ~committed
       THEN /\ response' = [NoResponse EXCEPT
                              !.status = 500, !.code = "SERVER_ERROR",
                              !.commit = "failed"]
            /\ messages' = CommitMessage(messages, data, committed)
       ELSE IF send_contact_email(outcome) = "raised"
       THEN /\ response' = [NoResponse EXCEPT
                              !.status = 500, !.code = "SERVER_ERROR",
                              !.commit = "committed", !.sendgrid = outcome,
                              !.mail = "raised"]
            /\ messages' = CommitMessage(messages, data, committed)
       ELSE /\ response' = [NoResponse EXCEPT
                              !.status = 201, !.code = "success",
                              !.commit = "committed", !.sendgrid = outcome,
                              !.mail = send_contact_email(outcome)]
            /\ messages' = CommitMessage(messages, data, committed)
    /\ UNCHANGED notContactVars

ContactInit ==
    /\ messages = {}
    /\ submitted = NoPayload
    /\ response = NoResponse

ContactIdle == ContactInit

\* the store and the mail service are called only for a payload that loads
Consulted(data) == data.json /\ ~IsEmptyPayload(data) /\ ContactLoad(data) = {}

ContactNext ==
    \E data \in ContactPayloads :
        \E committed \in (IF Consulted(data) THEN BOOLEAN ELSE {TRUE}),
           outcome \in (IF Consulted(data) THEN MailOutcomes ELSE {"accepted"}) :
            submit_contact(data, committed, outcome)

(* ------------------------------------------------------------------ *)
(* ContactMessageAdmin                                                 *)
(* ------------------------------------------------------------------ *)
\* the edit form with the message among its columns
ContactMessageFormColumns_WithMessage == {"replied", "message"}

\* form_columns = ['replied']
ContactMessageFormColumns == {"replied"}

\* what an edit request may post: the checkbox, and a message text that
\* only a form with that column would read
PostedEdits == [replied : BOOLEAN, message : {Letters(MinMessageLen + 1)}]

\* edit view: form.populate_obj(model) over the form's columns, commit.
\* can_create and can_delete are False: the console has no other write.
ContactAdminEdit(id, posted) ==
    /\ \E m \in messages :
          /\ m.id = id
          /\ messages' = (messages \ {m}) \cup
                {[m EXCEPT
                    !.replied = IF "replied" \in ContactMessageFormColumns
                                THEN posted.replied ELSE @,
                    !.message = IF "message" \in ContactMessageFormColumns
                                THEN posted.message ELSE @]}
    /\ UNCHANGED <<submitted, response>>
    /\ UNCHANGED notContactVars

ContactAdminNext ==
    \E id \in 1..MaxMessages, posted \in PostedEdits : ContactAdminEdit(id, posted)

(* ------------------------------------------------------------------ *)
(* ExperienceSchema.load                                               *)
(* ------------------------------------------------------------------ *)
\* a <= b and a < b on dates
DateLE(a, b) ==
    \/ a.year < b.year
    \/ a.year = b.year /\ a.month < b.month
    \/ a.year = b.year /\ a.month = b.month /\ a.day <= b.day

DateLT(a, b) == DateLE(a, b) /\ a # b

EndNotAfterStart == <<"_schema", "End date must be after start date">>
StartInFuture == <<"_schema", "Start date cannot be in the future">>

\* company and start_date are required (role is kept valid throughout)
ExperienceFieldErrors(data) ==
    (IF data.company = Missing THEN {RequiredError("company")} ELSE {})
    \cup (IF data.start_date = NoDate THEN {RequiredError("startDate")} ELSE {})

\* validate_dates without its second test
validate_dates_NoFutureTest(data, now) ==
    IF data.start_date # NoDate /\ data.end_date # NoDate
       /\ DateLE(data.end_date, data.start_date)
    THEN {EndNotAfterStart}
    ELSE {}

\* ExperienceSchema.validate_dates: each test raises, so the first one that
\* fails is the only one reported
validate_dates(data, now) ==
    IF data.start_date # NoDate /\ data.end_date # NoDate
       /\ DateLE(data.end_date, data.start_date)
    THEN {EndNotAfterStart}
    ELSE IF data.start_date # NoDate /\ DateLT(now, data.start_date)
    THEN {StartInFuture}
    ELSE {}

ExperienceLoad(data, now) ==
    IF ExperienceFieldErrors(data) # {}
    THEN ExperienceFieldErrors(data)
    ELSE validate_dates(data, now)

(* ------------------------------------------------------------------ *)
(* SiteMetaSchema.load                                                 *)
(* ------------------------------------------------------------------ *)
MinPlatformLen == 1
MaxPlatformLen == 50

\* sub in s
Contains(s, sub) ==
    \E i \in 0..(Len(s) - Len(sub)) : SubSeq(s, i + 1, i + Len(sub)) = sub

StartsWith(s, prefix) ==
    Len(s) >= Len(prefix) /\ SubSeq(s, 1, Len(prefix)) = prefix

SchemeHttp == <<"h","t","t","p",":","/","/">>
SchemeHttps == <<"h","t","t","p","s",":","/","/">>
DomainGithub == <<"g","i","t","h","u","b",".","c","o","m">>
DomainLinkedin == <<"l","i","n","k","e","d","i","n",".","c","o","m">>
DomainTwitter == <<"t","w","i","t","t","e","r",".","c","o","m">>
DomainX == <<"x",".","c","o","m">>
PlatformGithub == <<"g","i","t","h","u","b">>
PlatformLinkedin == <<"l","i","n","k","e","d","i","n">>
PlatformTwitter == <<"t","w","i","t","t","e","r">>

\* what follows the scheme, up to the first "/"
UrlHost(s) ==
    LET rest == IF StartsWith(s, SchemeHttps)
                THEN SubSeq(s, Len(SchemeHttps) + 1, Len(s))
                ELSE SubSeq(s, Len(SchemeHttp) + 1, Len(s))
    IN  Split(rest, "/")[1]

\* validate.URL, in outline: an http(s) scheme and a host of two or more
\* non-empty dot-separated labels
IsUrl(s) ==
    /\ StartsWith(s, SchemeHttp) \/ StartsWith(s, SchemeHttps)
    /\ LET labels == Split(UrlHost(s), ".")
       IN  /\ Len(labels) >= 2
           /\ \A i \in 1..Len(labels) :
                 /\ labels[i] # <<>>
                 /\ \A j \in 1..Len(labels[i]) :
                       IsWordChar(labels[i][j]) \/ labels[i][j] = "-"

\* errors of this schema are <<key, index, field, message>>
DuplicatePlatform == <<"_schema", 0, "", "Duplicate social media platform found">>
GithubDomain == <<"_schema", 0, "", "GitHub URL must contain github.com">>
LinkedinDomain == <<"_schema", 0, "", "LinkedIn URL must contain linkedin.com">>
TwitterDomain == <<"_schema", 0, "", "Twitter URL must contain twitter.com or x.com">>
NoLinkError == <<"_schema", 0, "", "none">>

\* SocialLinkSchema on each entry of social_links
SiteMetaFieldErrors(data) ==
    {<<"socialLinks", i, "platform", "Length must be between 1 and 50.">> :
        i \in {k \in 1..Len(data.social_links) :
                  \/ Len(data.social_links[k].platform) < MinPlatformLen
                  \/ Len(data.social_links[k].platform) > MaxPlatformLen}}
    \cup {<<"socialLinks", i, "url", "Not a valid URL.">> :
        i \in {k \in 1..Len(data.social_links) : ~IsUrl(data.social_links[k].url)}}

\* the loop's pass with the domain tests made on the platform as written
LinkRaise_CaseSensitive(links, i) ==
    LET platform == links[i].platform
        url == links[i].url
    IN  IF \E j \in 1..(i - 1) : Lower(links[j].platform) = Lower(platform)
        THEN DuplicatePlatform
        ELSE IF platform = PlatformGithub /\ ~Contains(url, DomainGithub)
        THEN GithubDomain
        ELSE IF platform = PlatformLinkedin /\ ~Contains(url, DomainLinkedin)
        THEN LinkedinDomain
        ELSE IF platform = PlatformTwitter
                /\ ~(Contains(url, DomainTwitter) \/ Contains(url, DomainX))
        THEN TwitterDomain
        ELSE NoLinkError

\* one pass of the loop in validate_social_links: what link i raises
LinkRaise(links, i) ==
    LET platform == Lower(links[i].platform)
        url == links[i].url
    IN  IF \E j \in 1..(i - 1) : Lower(links[j].platform) = platform
        THEN DuplicatePlatform
        ELSE IF platform = PlatformGithub /\ ~Contains(url, DomainGithub)
        THEN GithubDomain
        ELSE IF platform = PlatformLinkedin /\ ~Contains(url, DomainLinkedin)
        THEN LinkedinDomain
        ELSE IF platform = PlatformTwitter
                /\ ~(Contains(url, DomainTwitter) \/ Contains(url, DomainX))
        THEN TwitterDomain
        ELSE NoLinkError

\* SiteMetaSchema.validate_social_links: the loop ends at the first raise
validate_social_links(data) ==
    LET links == data.social_links
        raising == {i \in 1..Len(links) : LinkRaise(links, i) # NoLinkError}
    IN  IF raising = {}
        THEN {}
        ELSE {LinkRaise(links, CHOOSE i \in raising : \A j \in raising : i <= j)}

SiteMetaLoad(data) ==
    IF SiteMetaFieldErrors(data) # {}
    THEN SiteMetaFieldErrors(data)
    ELSE validate_social_links(data)

(* ------------------------------------------------------------------ *)
(* The three loads, on their own                                       *)
(* ------------------------------------------------------------------ *)
MaxLinks == 2

CompanyAcme == <<"A","c","m","e">>

\* two days in each of two months
ValidationDates == {Date(BaseYear + 1, m, d) : m \in {1, 2}, d \in {1, 2}}

ExperienceInputs ==
    [company : {Missing, CompanyAcme},
     start_date : ValidationDates \cup {NoDate},
     end_date : ValidationDates \cup {NoDate}]

Link(platform, url) == [platform |-> platform, url |-> url, icon |-> <<"i">>]

SocialLinks ==
    {Link(<<"G","i","t","H","u","b">>, <<"h","t","t","p","s",":","/","/","g","i","t","h","u","b",".","c","o","m","/","u">>),
     Link(PlatformGithub, <<"h","t","t","p","s",":","/","/","e","x","a","m","p","l","e",".","c","o","m","/","u">>),
     Link(PlatformTwitter, <<"h","t","t","p","s",":","/","/","x",".","c","o","m","/","u">>),
     Link(PlatformLinkedin, <<"h","t","t","p","s",":","/","/","e","x","a","m","p","l","e",".","c","o","m","/","u">>),
     Link(<<"B","l","o","g">>, <<"h","t","t","p","s",":","/","/","e","x","a","m","p","l","e",".","c","o","m","/","u">>),
     Link(<<"B","l","o","g">>, <<"n","o","t","a","u","r","l">>),
     Link(<<"G","i","t","H","u","b">>, <<"h","t","t","p","s",":","/","/","e","x","a","m","p","l","e",".","c","o","m","/","u">>),
     Link(<<"T","w","i","t","t","e","r">>, <<"h","t","t","p","s",":","/","/","t","w","i","t","t","e","r",".","c","o","m","/","u">>),
     Link(<<"X">>, <<"h","t","t","p","s",":","/","/","e","x","a","m","p","l","e",".","c","o","m","/","u">>)}

SiteMetaInputs ==
    [social_links : UNION {[1..n -> SocialLinks] : n \in 0..MaxLinks}]

NoCandidate == [kind |-> "none", data |-> <<>>, now |-> NoDate]

LoadContact(data) ==
    /\ cand' = [kind |-> "contact", data |-> data, now |-> NoDate]
    /\ verdict' = ContactLoad(data)
    /\ UNCHANGED notValidateVars

LoadExperience(data, now) ==
    /\ cand' = [kind |-> "experience", data |-> data, now |-> now]
    /\ verdict' = ExperienceLoad(data, now)
    /\ UNCHANGED notValidateVars

LoadSiteMeta(data) ==
    /\ cand' = [kind |-> "site_meta", data |-> data, now |-> NoDate]
    /\ verdict' = SiteMetaLoad(data)
    /\ UNCHANGED notValidateVars

ValidateInit ==
    /\ cand = NoCandidate
    /\ verdict = {}

ValidateIdle == ValidateInit

ValidateNext ==
    \/ \E data \in {d \in ContactPayloads : d.json} : LoadContact(data)
    \/ \E data \in ExperienceInputs, now \in ValidationDates : LoadExperience(data, now)
    \/ \E data \in SiteMetaInputs : LoadSiteMeta(data)

(* ------------------------------------------------------------------ *)
(* json.loads on the texts of the social-links field                   *)
(* ------------------------------------------------------------------ *)
\* A decoded value is [t, v]: t names the type, v holds a string's
\* characters, a number's digits, a list's items or an object's members.
\* The texts decoded here carry no escapes, signs, fractions or exponents.
JsonWhitespace == {" ", "\t", "\n", "\r"}
JsonNull == [t |-> "null", v |-> <<>>]
JsonStr(chars) == [t |-> "str", v |-> chars]
NoParse == [ok |-> FALSE, v |-> JsonNull, next |-> 0]
Parsed(value, next) == [ok |-> TRUE, v |-> value, next |-> next]

\* the character at position i, "" past the end
At(s, i) == IF i >= 1 /\ i <= Len(s) THEN s[i] ELSE ""

\* the literal starts at position i
LiteralAt(s, i, lit) ==
    i + Len(lit) - 1 <= Len(s) /\ SubSeq(s, i, i + Len(lit) - 1) = lit

\* first position at or after i that holds no whitespace
SkipWs(s, i) ==
    IF \E j \in i..Len(s) : s[j] \notin JsonWhitespace
    THEN CHOOSE j \in i..Len(s) :
            s[j] \notin JsonWhitespace /\ \A k \in i..(j - 1) : s[k] \in JsonWhitespace
    ELSE Len(s) + 1

\* s[i] is the opening quote: up to the next quote, no control characters
ParseString(s, i) ==
    IF \E k \in (i + 1)..Len(s) : s[k] = "\""
    THEN LET k == CHOOSE k \in (i + 1)..Len(s) :
                      s[k] = "\"" /\ \A j \in (i + 1)..(k - 1) : s[j] # "\""
             chars == SubSeq(s, i + 1, k - 1)
         IN  IF \E j \in 1..Len(chars) : chars[j] \in {"\n", "\t", "\r"}
             THEN NoParse
             ELSE Parsed(JsonStr(chars), k + 1)
    ELSE NoParse

\* s[i] is a digit: "0", or a run of digits not starting with "0"
ParseNumber(s, i) ==
    IF s[i] = "0"
    THEN Parsed([t |-> "num", v |-> <<"0">>], i + 1)
    ELSE LET k == CHOOSE k \in i..Len(s) :
                      /\ \A j \in i..k : s[j] \in Digits
                      /\ At(s, k + 1) \notin Digits
         IN  Parsed([t |-> "num", v |-> SubSeq(s, i, k)], k + 1)

RECURSIVE ParseValue(_, _)
RECURSIVE ParseElements(_, _, _)
RECURSIVE ParseMembers(_, _, _)

\* the items of a list, the first starting at i; items holds those read
ParseElements(s, i, items) ==
    LET item == ParseValue(s, i)
        k == SkipWs(s, item.next)
    IN  IF ~item.ok THEN NoParse
        ELSE IF At(s, k) = ","
        THEN ParseElements(s, SkipWs(s, k + 1), Append(items, item.v))
        ELSE IF At(s, k) = "]"
        THEN Parsed([t |-> "list", v |-> Append(items, item.v)], k + 1)
        ELSE NoParse

\* the members of an object, the first key starting at i; a repeated key
\* keeps its last value
ParseMembers(s, i, members) ==
    IF At(s, i) # "\"" THEN NoParse
    ELSE LET key == ParseString(s, i)
             colon == SkipWs(s, key.next)
             val == ParseValue(s, SkipWs(s, colon + 1))
             k == SkipWs(s, val.next)
             sofar == (key.v.v :> val.v) @@ members
         IN  IF ~key.ok \/ At(s, colon) # ":" THEN NoParse
             ELSE IF ~val.ok THEN NoParse
             ELSE IF At(s, k) = ","
             THEN ParseMembers(s, SkipWs(s, k + 1), sofar)
             ELSE IF At(s, k) = "}"
             THEN Parsed([t |-> "obj", v |-> sofar], k + 1)
             ELSE NoParse

\* the value starting at position i
ParseValue(s, i) ==
    LET c == At(s, i) IN
    IF c = "\"" THEN ParseString(s, i)
    ELSE IF c \in Digits THEN ParseNumber(s, i)
    ELSE IF c = "["
    THEN IF At(s, SkipWs(s, i + 1)) = "]"
         THEN Parsed([t |-> "list", v |-> <<>>], SkipWs(s, i + 1) + 1)
         ELSE ParseElements(s, SkipWs(s, i + 1), <<>>)
    ELSE IF c = "{"
    THEN IF At(s, SkipWs(s, i + 1)) = "}"
         THEN Parsed([t |-> "obj", v |-> <<>>], SkipWs(s, i + 1) + 1)
         ELSE ParseMembers(s, SkipWs(s, i + 1), <<>>)
    ELSE IF LiteralAt(s, i, <<"n","u","l","l">>) THEN Parsed(JsonNull, i + 4)
    ELSE IF LiteralAt(s, i, <<"t","r","u","e">>)
    THEN Parsed([t |-> "bool", v |-> <<"t">>], i + 4)
    ELSE IF LiteralAt(s, i, <<"f","a","l","s","e">>)
    THEN Parsed([t |-> "bool", v |-> <<"f">>], i + 5)
    ELSE NoParse

\* json.loads(text): one value, whitespace around it, nothing after it;
\* ok is FALSE where the library raises JSONDecodeError
json_loads(text) ==
    LET r == ParseValue(text, SkipWs(text, 1))
    IN  IF r.ok /\ SkipWs(text, r.next) = Len(text) + 1 THEN r ELSE NoParse

(* ------------------------------------------------------------------ *)
(* SiteMetaAdmin: writes of the social-links text                      *)
(* ------------------------------------------------------------------ *)
MaxMetas == 2

\* one well-formed link, laid out as json.dumps(indent=2) does
LinksTextOne ==
    <<"[","\n"," "," ","{","\n"," "," "," "," ","\"","p","l","a","t","f",
      "o","r","m","\"",":"," ","\"","G","i","t","H","u","b","\"",",","\n",
      " "," "," "," ","\"","u","r","l","\"",":"," ","\"","h","t","t","p",
      "s",":","/","/","g","i","t","h","u","b",".","c","o","m","/","u","\"",
      ",","\n"," "," "," "," ","\"","i","c","o","n","\"",":"," ","\"","g",
      "h","\"","\n"," "," ","}","\n","]">>

\* two links whose platforms differ only in case
LinksTextDuplicate ==
    <<"[","{","\"","p","l","a","t","f","o","r","m","\"",":","\"","G","i",
      "t","H","u","b","\"",",","\"","u","r","l","\"",":","\"","h","t","t",
      "p","s",":","/","/","g","i","t","h","u","b",".","c","o","m","/","u",
      "\"",",","\"","i","c","o","n","\"",":","\"","g","h","\"","}",",","{",
      "\"","p","l","a","t","f","o","r","m","\"",":","\"","g","i","t","h",
      "u","b","\"",",","\"","u","r","l","\"",":","\"","h","t","t","p","s",
      ":","/","/","g","i","t","h","u","b",".","c","o","m","/","u","\"",",",
      "\"","i","c","o","n","\"",":","\"","g","h","\"","}","]">>

\* a github link that does not point to github.com
LinksTextOffDomain ==
    <<"[","{","\"","p","l","a","t","f","o","r","m","\"",":","\"","g","i",
      "t","h","u","b","\"",",","\"","u","r","l","\"",":","\"","h","t","t",
      "p","s",":","/","/","e","x","a","m","p","l","e",".","c","o","m","/",
      "u","\"",",","\"","i","c","o","n","\"",":","\"","g","h","\"","}","]">>

\* a link without url and icon
LinksTextNoUrl ==
    <<"[","{","\"","p","l","a","t","f","o","r","m","\"",":","\"","G","i",
      "t","H","u","b","\"","}","]">>

\* a number
LinksTextNumber ==
    <<"5">>

\* the JSON literal null
LinksTextNull ==
    <<"n","u","l","l">>

\* the empty list
LinksTextEmptyList ==
    <<"[","]">>

\* blanks only
LinksTextBlank ==
    <<" "," ">>

\* Python literal syntax
LinksTextSingleQuotes ==
    <<"[","{","'","p","l","a","t","f","o","r","m","'",":"," ","'","G","i",
      "t","H","u","b","'","}","]">>

\* a list that is not closed
LinksTextTruncated ==
    <<"[","{","\"","p","l","a","t","f","o","r","m","\"",":","\"","G","i",
      "t","H","u","b","\"","}">>

\* a comma before the closing bracket
LinksTextTrailingComma ==
    <<"[","{","\"","p","l","a","t","f","o","r","m","\"",":","\"","G","i",
      "t","H","u","b","\"",",","\"","u","r","l","\"",":","\"","h","t","t",
      "p","s",":","/","/","g","i","t","h","u","b",".","c","o","m","/","u",
      "\"",",","\"","i","c","o","n","\"",":","\"","g","h","\"","}",",","]">>

SocialLinksTexts ==
    {NoText, LinksTextOne,
     LinksTextDuplicate,
     LinksTextOffDomain,
     LinksTextNoUrl,
     LinksTextNumber,
     LinksTextNull,
     LinksTextEmptyList,
     LinksTextBlank,
     LinksTextSingleQuotes,
     LinksTextTruncated,
     LinksTextTrailingComma}

InvalidJsonError == "Social links must be valid JSON format"

\* json.loads(form.social_links.data) for each text the form may carry,
\* decoded once
Decoded == [text \in SocialLinksTexts |-> json_loads(text)]

NoMetaOut == [op |-> "none", id |-> NoId, text |-> NoText,
              stored |-> FALSE, error |-> "none"]

\* form.populate_obj(model): the column takes the text of the field
SiteMetaPopulate(id, text) == [id |-> id, social_links |-> JsonStr(text)]

\* the handler with the decode error swallowed
SiteMetaOnModelChange_KeepsText(text, model) ==
    IF text # NoText /\ Decoded[text].ok
    THEN [raised |-> FALSE, error |-> "none",
          model |-> [model EXCEPT !.social_links = Decoded[text].v]]
    ELSE [raised |-> FALSE, error |-> "none", model |-> model]

\* SiteMetaAdmin.on_model_change
SiteMetaOnModelChange(text, model) ==
    IF text # NoText
    THEN IF Decoded[text].ok
         THEN [raised |-> FALSE, error |-> "none",
               model |-> [model EXCEPT !.social_links = Decoded[text].v]]
         ELSE [raised |-> TRUE, error |-> InvalidJsonError, model |-> model]
    ELSE [raised |-> FALSE, error |-> "none", model |-> model]

NoMetaRead == [status |-> 0, id |-> NoId, socialLinks |-> JsonNull]

\* create view: a raise rolls the session back, otherwise the row is added
SiteMetaCreate(text) ==
    /\ Len(metas) < MaxMetas
    /\ LET id == Len(metas) + 1
           r == SiteMetaOnModelChange(text, SiteMetaPopulate(id, text))
       IN  /\ metas' = IF r.raised THEN metas ELSE Append(metas, r.model)
           /\ metaOut' = [op |-> "create", id |-> id, text |-> text,
                          stored |-> ~r.raised, error |-> r.error]
    /\ metaRead' = NoMetaRead
    /\ UNCHANGED notSiteMetaVars

\* edit view of row id
SiteMetaUpdate(id, text) ==
    /\ id \in 1..Len(metas)
    /\ LET r == SiteMetaOnModelChange(text, SiteMetaPopulate(id, text))
       IN  /\ metas' = IF r.raised THEN metas ELSE [metas EXCEPT ![id] = r.model]
           /\ metaOut' = [op |-> "update", id |-> id, text |-> text,
                          stored |-> ~r.raised, error |-> r.error]
    /\ metaRead' = NoMetaRead
    /\ UNCHANGED notSiteMetaVars

(* ------------------------------------------------------------------ *)
(* GET /api/meta                                                       *)
(* ------------------------------------------------------------------ *)
KeyPlatform == <<"p","l","a","t","f","o","r","m">>
KeyUrl == <<"u","r","l">>
KeyIcon == <<"i","c","o","n">>

\* fields.Str._serialize on a member's value: None stays None, the rest goes
\* through str(); the members stored here hold strings, numbers or null
DumpStr(value) ==
    IF value.t = "null" THEN JsonNull ELSE JsonStr(value.v)

\* fields.Nested(SocialLinkSchema)._serialize on one item: None stays None;
\* of a mapping the declared keys it holds are dumped; anything else has
\* none of the three attributes and dumps as the empty object
DumpLink(item) ==
    IF item.t = "null" THEN JsonNull
    ELSE IF item.t = "obj"
    THEN [t |-> "obj",
          v |-> [k \in DOMAIN item.v \cap {KeyPlatform, KeyUrl, KeyIcon} |->
                    DumpStr(item.v[k])]]
    ELSE [t |-> "obj", v |-> <<>>]

\* the values a for-loop over the stored value walks through: the items of
\* a list, the characters of a string
Iterated(value) ==
    IF value.t = "str" THEN [i \in 1..Len(value.v) |-> JsonStr(<<value.v[i]>>)]
    ELSE value.v

\* fields.List._serialize: None is returned as it is, everything else is
\* iterated; a number or a boolean cannot be and raises TypeError
DumpSocialLinks(value) ==
    IF value.t = "null" THEN [raised |-> FALSE, v |-> JsonNull]
    ELSE IF value.t \in {"num", "bool"} THEN [raised |-> TRUE, v |-> JsonNull]
    ELSE IF value.t = "obj"
    THEN [raised |-> FALSE,
          v |-> [t |-> "list",
                 v |-> [i \in 1..Cardinality(DOMAIN value.v) |->
                          [t |-> "obj", v |-> <<>>]]]]
    ELSE [raised |-> FALSE,
          v |-> [t |-> "list",
                 v |-> [i \in 1..Len(Iterated(value)) |->
                          DumpLink(Iterated(value)[i])]]]

\* the structure served when the table is empty
DefaultMeta == [status |-> 200, id |-> NoId, socialLinks |-> [t |-> "list", v |-> <<>>]]

\* the answer of the except branch
MetaServerError == [status |-> 500, id |-> NoId, socialLinks |-> JsonNull]

\* get_meta, site_meta being the row SiteMeta.query.first() came back with
MetaResponse(rows, i) ==
    IF rows = <<>> THEN DefaultMeta
    ELSE IF DumpSocialLinks(rows[i].social_links).raised THEN MetaServerError
    ELSE [status |-> 200, id |-> rows[i].id,
          socialLinks |-> DumpSocialLinks(rows[i].social_links).v]

\* GET /api/meta: first() carries no ORDER BY, so the store may hand back
\* any one of the rows
GetMeta ==
    /\ \E i \in 1..(IF metas = <<>> THEN 1 ELSE Len(metas)) :
          metaRead' = MetaResponse(metas, i)
    /\ UNCHANGED <<metas, metaOut>>
    /\ UNCHANGED notSiteMetaVars

SiteMetaInit ==
    /\ metas = <<>>
    /\ metaOut = NoMetaOut
    /\ metaRead = NoMetaRead

SiteMetaIdle == SiteMetaInit

SiteMetaNext ==
    \/ \E text \in SocialLinksTexts : SiteMetaCreate(text)
    \/ \E id \in 1..MaxMetas, text \in SocialLinksTexts : SiteMetaUpdate(id, text)
    \/ GetMeta

(* ------------------------------------------------------------------ *)
(* GET /api/projects                                                   *)
(* ------------------------------------------------------------------ *)
MaxListed == 3

\* the columns the listing filters and sorts on
ListedRows(n) ==
    [1..n -> [featured : BOOLEAN, order_index : 0..1, created_at : 1..2]]

\* the tables of up to MaxListed rows, each row under its primary key
Catalogs ==
    UNION {{{[id |-> i, featured |-> f[i].featured, order_index |-> f[i].order_index,
              created_at |-> f[i].created_at] : i \in 1..n} : f \in ListedRows(n)} :
           n \in 0..MaxListed}

\* request.args.get("featured") when the query string has no such key
NoParam == <<"(none)">>

FeaturedParams ==
    {NoParam, <<"t","r","u","e">>, <<"T","r","u","e">>, <<"1">>, <<"Y","E","S">>,
     <<"f","a","l","s","e">>, <<"0">>, <<"N","o">>, <<"m","a","y","b","e">>,
     <<>>, <<" ","t","r","u","e">>}

TrueWords == {<<"t","r","u","e">>, <<"1">>, <<"y","e","s">>}
FalseWords == {<<"f","a","l","s","e">>, <<"0">>, <<"n","o">>}

\* featured_filter: "none" stands for None, "invalid" for the early return
FeaturedFilter(param) ==
    IF param = NoParam THEN "none"
    ELSE IF Lower(param) \in TrueWords THEN "true"
    ELSE IF Lower(param) \in FalseWords THEN "false"
    ELSE "invalid"

\* query.filter(Project.featured == featured_filter)
Filtered(rows, filter) ==
    IF filter = "none" THEN rows
    ELSE {p \in rows : p.featured = (filter = "true")}

\* the sort with created_at ascending too
SortsBefore_CreatedAscending(a, b) ==
    \/ a.order_index < b.order_index
    \/ a.order_index = b.order_index /\ a.created_at < b.created_at

\* order_by(Project.order_index.asc(), desc(Project.created_at)): a sorts
\* strictly before b
SortsBefore(a, b) ==
    \/ a.order_index < b.order_index
    \/ a.order_index = b.order_index /\ a.created_at > b.created_at

\* .all(): the rows in an order the ORDER BY allows; rows equal on both keys
\* come in either order
Orderings(rows) ==
    {seq \in [1..Cardinality(rows) -> rows] :
        /\ \A i, j \in 1..Cardinality(rows) : i # j => seq[i] # seq[j]
        /\ \A i, j \in 1..Cardinality(rows) : i < j => ~SortsBefore(seq[j], seq[i])}

NoListing == [param |-> NoParam, status |-> 0, items |-> <<>>]

\* get_projects
GetProjects(param) ==
    /\ IF FeaturedFilter(param) = "invalid"
       THEN listing' = [param |-> param, status |-> 400, items |-> <<>>]
       ELSE \E seq \in Orderings(Filtered(catalog, FeaturedFilter(param))) :
               listing' = [param |-> param, status |-> 200, items |-> seq]
    /\ UNCHANGED catalog
    /\ UNCHANGED notListingVars

ListingInit ==
    /\ catalog \in Catalogs
    /\ listing = NoListing

ListingIdle ==
    /\ catalog = {}
    /\ listing = NoListing

ListingNext == \E param \in FeaturedParams : GetProjects(param)

(* ------------------------------------------------------------------ *)
(* Field-name transforms                                               *)
(* ------------------------------------------------------------------ *)
\* str.upper() on one character
UpperChar(c) ==
    IF c \in Lowercase
    THEN UpperSeq[CHOOSE i \in 1..Len(LowerSeq) : LowerSeq[i] = c]
    ELSE c

\* str.capitalize(): first character upper-cased, the rest lower-cased
Capitalize(word) ==
    IF word = <<>> THEN <<>> ELSE <<UpperChar(Head(word))>> \o Lower(Tail(word))

RECURSIVE Concat(_)
Concat(parts) ==
    IF parts = <<>> THEN <<>> ELSE Head(parts) \o Concat(Tail(parts))

\* the transform with the words after the first joined as they are
snake_to_camel_NoCapitalize(name) == Concat(Split(name, "_"))

\* components[0] + "".join(word.capitalize() for word in components[1:])
snake_to_camel(name) ==
    LET components == Split(name, "_")
    IN  Head(components)
        \o Concat([i \in 1..(Len(components) - 1) |-> Capitalize(components[i + 1])])

\* end of the run [a-z]+ that starts at position i
LowerRunEnd(s, i) ==
    CHOOSE k \in i..Len(s) :
        /\ \A j \in i..k : s[j] \in Lowercase
        /\ At(s, k + 1) \notin Lowercase

\* re.sub("(.)([A-Z][a-z]+)", r"\1_\2", name), matches taken left to right
RECURSIVE SplitCapitalized(_, _)
SplitCapitalized(s, i) ==
    IF i > Len(s) THEN <<>>
    ELSE IF s[i] # "\n" /\ At(s, i + 1) \in Uppercase /\ At(s, i + 2) \in Lowercase
    THEN <<s[i], "_">> \o SubSeq(s, i + 1, LowerRunEnd(s, i + 2))
         \o SplitCapitalized(s, LowerRunEnd(s, i + 2) + 1)
    ELSE <<s[i]>> \o SplitCapitalized(s, i + 1)

\* re.sub("([a-z0-9])([A-Z])", r"\1_\2", s1), matches taken left to right
RECURSIVE SplitLowerUpper(_, _)
SplitLowerUpper(s, i) ==
    IF i > Len(s) THEN <<>>
    ELSE IF s[i] \in Lowercase \cup Digits /\ At(s, i + 1) \in Uppercase
    THEN <<s[i], "_", s[i + 1]>> \o SplitLowerUpper(s, i + 2)
    ELSE <<s[i]>> \o SplitLowerUpper(s, i + 1)

camel_to_snake(name) == Lower(SplitLowerUpper(SplitCapitalized(name, 1), 1))

\* CamelCaseSchema.on_bind_field: the data key of a field
on_bind_field(field_name) == snake_to_camel(field_name)

ProjectFields ==
    {<<"i","d">>, <<"t","i","t","l","e">>, <<"s","l","u","g">>,
     <<"s","h","o","r","t","_","d","e","s","c">>,
     <<"l","o","n","g","_","m","d">>, <<"t","e","c","h">>,
     <<"g","i","t","h","u","b","_","u","r","l">>,
     <<"d","e","m","o","_","u","r","l">>,
     <<"c","o","v","e","r","_","i","m","a","g","e">>,
     <<"f","e","a","t","u","r","e","d">>,
     <<"o","r","d","e","r","_","i","n","d","e","x">>,
     <<"c","r","e","a","t","e","d","_","a","t">>}

ExperienceFields ==
    {<<"i","d">>, <<"c","o","m","p","a","n","y">>, <<"r","o","l","e">>,
     <<"l","o","c","a","t","i","o","n">>,
     <<"s","t","a","r","t","_","d","a","t","e">>,
     <<"e","n","d","_","d","a","t","e">>, <<"b","u","l","l","e","t","s">>,
     <<"t","e","c","h">>, <<"o","r","d","e","r","_","i","n","d","e","x">>,
     <<"d","u","r","a","t","i","o","n">>,
     <<"i","s","_","c","u","r","r","e","n","t">>}

ContactMessageFields ==
    {<<"i","d">>, <<"n","a","m","e">>, <<"e","m","a","i","l">>,
     <<"m","e","s","s","a","g","e">>,
     <<"c","r","e","a","t","e","d","_","a","t">>,
     <<"r","e","p","l","i","e","d">>}

SiteMetaFields ==
    {<<"i","d">>, <<"h","e","r","o","_","t","i","t","l","e">>,
     <<"h","e","r","o","_","s","u","b","t","i","t","l","e">>,
     <<"b","i","o","_","m","d">>,
     <<"s","o","c","i","a","l","_","l","i","n","k","s">>,
     <<"a","v","a","t","a","r","_","i","m","a","g","e">>,
     <<"p","r","o","f","i","l","e","_","i","m","a","g","e">>}

SocialLinkFields ==
    {<<"p","l","a","t","f","o","r","m">>, <<"u","r","l">>,
     <<"i","c","o","n">>}

\* the field names declared by the schemas
InternalNames ==
    ProjectFields \cup ExperienceFields \cup ContactMessageFields
    \cup SiteMetaFields \cup SocialLinkFields

\* the names of the read contract
ExternalNames ==
    {<<"i","d">>, <<"t","i","t","l","e">>, <<"s","l","u","g">>,
     <<"s","h","o","r","t","D","e","s","c">>, <<"l","o","n","g","M","d">>,
     <<"t","e","c","h">>, <<"g","i","t","h","u","b","U","r","l">>,
     <<"d","e","m","o","U","r","l">>,
     <<"c","o","v","e","r","I","m","a","g","e">>,
     <<"f","e","a","t","u","r","e","d">>,
     <<"o","r","d","e","r","I","n","d","e","x">>,
     <<"c","r","e","a","t","e","d","A","t">>,
     <<"c","o","m","p","a","n","y">>, <<"r","o","l","e">>,
     <<"l","o","c","a","t","i","o","n">>,
     <<"s","t","a","r","t","D","a","t","e">>,
     <<"e","n","d","D","a","t","e">>, <<"b","u","l","l","e","t","s">>,
     <<"d","u","r","a","t","i","o","n">>,
     <<"i","s","C","u","r","r","e","n","t">>, <<"n","a","m","e">>,
     <<"e","m","a","i","l">>, <<"m","e","s","s","a","g","e">>,
     <<"r","e","p","l","i","e","d">>,
     <<"h","e","r","o","T","i","t","l","e">>,
     <<"h","e","r","o","S","u","b","t","i","t","l","e">>,
     <<"b","i","o","M","d">>,
     <<"s","o","c","i","a","l","L","i","n","k","s">>,
     <<"p","l","a","t","f","o","r","m">>, <<"u","r","l">>,
     <<"i","c","o","n">>, <<"a","v","a","t","a","r","I","m","a","g","e">>,
     <<"p","r","o","f","i","l","e","I","m","a","g","e">>}

MaxTransforms == 2

NoTransforms == <<>>

\* the identifier the next transform is applied to
CurrentName == IF converted = <<>> THEN fieldName ELSE converted[Len(converted)].out

\* toExternal
ToExternal ==
    /\ Len(converted) < MaxTransforms
    /\ converted' = Append(converted, [by |-> "snake_to_camel",
                                       out |-> on_bind_field(CurrentName)])
    /\ UNCHANGED fieldName
    /\ UNCHANGED notNameVars

\* toInternal
ToInternal ==
    /\ Len(converted) < MaxTransforms
    /\ converted' = Append(converted, [by |-> "camel_to_snake",
                                       out |-> camel_to_snake(CurrentName)])
    /\ UNCHANGED fieldName
    /\ UNCHANGED notNameVars

NameInit ==
    /\ fieldName \in InternalNames \cup ExternalNames
    /\ converted = NoTransforms

NameIdle ==
    /\ fieldName = NoText
    /\ converted = NoTransforms

NameNext == ToExternal \/ ToInternal

(* ------------------------------------------------------------------ *)
(* Admin console: login, logout and the guarded views                  *)
(* ------------------------------------------------------------------ *)
MaxAuthEvents == 3

\* os.getenv('ADMIN_USER', 'admin') and os.getenv('ADMIN_PASS', 'admin')
AdminUser == "admin"
AdminPass == "admin"

\* request.form.get(...) of a field the form does not carry
NoField == "(none)"

\* what a login form may carry
Usernames == {AdminUser, "root", NoField}
Passwords == {AdminPass, "guess"}

KeyAuthenticated == "admin_authenticated"

\* the index view and the four model views registered by init_admin
AdminViews ==
    {"index", "admin_projects", "admin_experience", "admin_contact", "admin_meta"}

\* session.get('admin_authenticated', False)
is_authenticated ==
    IF KeyAuthenticated \in DOMAIN session THEN session[KeyAuthenticated] ELSE FALSE

\* the comparison of the username alone
authenticate_UsernameOnly(username, password) == username = AdminUser

authenticate(username, password) ==
    username = AdminUser /\ password = AdminPass

NoSession == <<>>
NoAuthLog == <<>>
NoPage == [view |-> "none", served |-> "none"]

\* login_view on POST
Login(username, password) ==
    /\ Len(authLog) < MaxAuthEvents
    /\ authLog' = Append(authLog, [kind |-> "login", username |-> username,
                                   password |-> password])
    /\ IF authenticate(username, password)
       THEN /\ session' = (KeyAuthenticated :> TRUE) @@ session
            /\ page' = [view |-> "login", served |-> "redirect to index"]
       ELSE /\ UNCHANGED session
            /\ page' = [view |-> "login", served |-> "login form"]
    /\ UNCHANGED notAuthVars

\* logout_view: session.pop('admin_authenticated', None)
Logout ==
    /\ Len(authLog) < MaxAuthEvents
    /\ authLog' = Append(authLog, [kind |-> "logout", username |-> NoField,
                                   password |-> NoField])
    /\ session' = [k \in DOMAIN session \ {KeyAuthenticated} |-> session[k]]
    /\ page' = [view |-> "logout", served |-> "redirect to login"]
    /\ UNCHANGED notAuthVars

\* MyAdminIndexView.index, and a model view behind is_accessible with
\* inaccessible_callback
Visit(view) ==
    /\ page' = [view |-> view,
                served |-> IF is_authenticated THEN "content" ELSE "redirect to login"]
    /\ UNCHANGED <<session, authLog>>
    /\ UNCHANGED notAuthVars

AuthInit ==
    /\ session = NoSession
    /\ authLog = NoAuthLog
    /\ page = NoPage

AuthIdle == AuthInit

AuthNext ==
    \/ \E username \in Usernames, password \in Passwords : Login(username, password)
    \/ Logout
    \/ \E view \in AdminViews : Visit(view)

(* ------------------------------------------------------------------ *)
(* Specifications                                                      *)
(* ------------------------------------------------------------------ *)
\* admin project writes, two requests interleaving
InitProject == ProjectInit /\ SlugIdle /\ ExperienceIdle /\ ContactIdle /\ ValidateIdle
    /\ SiteMetaIdle
    /\ ListingIdle /\ NameIdle /\ AuthIdle
SpecProject == InitProject /\ [][ProjectNext]_vars

\* admin writes of one project with uploaded cover images
SpecUpload == InitProject /\ [][UploadNext]_vars

\* generate_slug over every short text
InitSlug == SlugInit /\ ProjectIdle /\ ExperienceIdle /\ ContactIdle /\ ValidateIdle
    /\ SiteMetaIdle
    /\ ListingIdle /\ NameIdle /\ AuthIdle
SpecSlug == InitSlug /\ [][SlugNext]_vars

\* one experience row: admin writes, the clock, the read API
InitExperience == ExperienceInit /\ ProjectIdle /\ SlugIdle /\ ContactIdle /\ ValidateIdle
    /\ SiteMetaIdle
    /\ ListingIdle /\ NameIdle /\ AuthIdle
SpecExperience == InitExperience /\ [][ExperienceNext]_vars

\* admin writes and edits of the Experience list fields
InitExperienceText ==
    ExperienceInit /\ ProjectIdle /\ SlugIdle /\ ContactIdle /\ ValidateIdle
    /\ SiteMetaIdle
    /\ ListingIdle /\ NameIdle /\ AuthIdle
SpecExperienceText == InitExperienceText /\ [][ExperienceTextNext]_vars

\* the public contact endpoint
InitContact == ContactInit /\ ProjectIdle /\ SlugIdle /\ ExperienceIdle /\ ValidateIdle
    /\ SiteMetaIdle
    /\ ListingIdle /\ NameIdle /\ AuthIdle
SpecContact == InitContact /\ [][ContactNext]_vars

\* the contact endpoint together with the console's view of the messages
InboxNext == ContactNext \/ ContactAdminNext
SpecInbox == InitContact /\ [][InboxNext]_vars

\* the schemas' load, input by input
InitValidate ==
    ValidateInit /\ ProjectIdle /\ SlugIdle /\ ExperienceIdle /\ ContactIdle
    /\ SiteMetaIdle
    /\ ListingIdle /\ NameIdle /\ AuthIdle
SpecValidate == InitValidate /\ [][ValidateNext]_vars

\* the admin console on site metadata
InitSiteMeta ==
    SiteMetaInit /\ ProjectIdle /\ SlugIdle /\ ExperienceIdle /\ ContactIdle
    /\ ValidateIdle
    /\ ListingIdle /\ NameIdle /\ AuthIdle
SpecSiteMeta == InitSiteMeta /\ [][SiteMetaNext]_vars

\* the project listing over every small table
InitListing ==
    ListingInit /\ ProjectIdle /\ SlugIdle /\ ExperienceIdle /\ ContactIdle
    /\ ValidateIdle /\ SiteMetaIdle /\ NameIdle /\ AuthIdle
SpecListing == InitListing /\ [][ListingNext]_vars

\* the field-name transforms over the schemas' vocabulary
InitName ==
    NameInit /\ ProjectIdle /\ SlugIdle /\ ExperienceIdle /\ ContactIdle
    /\ ValidateIdle /\ SiteMetaIdle /\ ListingIdle /\ AuthIdle
SpecName == InitName /\ [][NameNext]_vars

\* one admin session
InitAuth ==
    AuthInit /\ ProjectIdle /\ SlugIdle /\ ExperienceIdle /\ ContactIdle
    /\ ValidateIdle /\ SiteMetaIdle /\ ListingIdle /\ NameIdle
SpecAuth == InitAuth /\ [][AuthNext]_vars

(* ------------------------------------------------------------------ *)
(* Properties of the project writes                                    *)
(* ------------------------------------------------------------------ *)
\* request r ran the handler in this step and went on to the commit
HandlerPassed(r) == req[r].pc = "idle" /\ req'[r].pc = "checked"

\* request r committed or was refused by the storage in this step
CommitStep(r) == req[r].pc = "checked" /\ req'[r].pc = "idle"

\* the slug of model m is that of a different stored project
UsedByAnother(m, rows) == \E p \in rows : p.id # m.id /\ p.slug = m.slug

\* C1: after any sequence of admin project creates and updates, no two
\* stored projects have the same slug.
C1_NoTwoProjectsShareSlug ==
    \A p, q \in projects : p.slug = q.slug => p = q

\* two projects are stored and a later write with a used slug was refused
C1_Witness ==
    /\ \E p, q \in projects : p.id # q.id
    /\ \E r \in Requests : req[r].last.kind \in {"SlugExists", "IntegrityError"}

\* C2: a project write that resolves to a slug used by a different stored
\* project fails in the handler with the error naming that slug, and the
\* stored projects are left as they were; it never goes on to the commit.
C2_CollisionFailsNamingSlug ==
    [][\A r \in Requests :
          /\ HandlerPassed(r) => ~UsedByAnother(req'[r].model, projects)
          /\ (req[r].pc = "idle" /\ req'[r] # req[r]
                /\ req'[r].last.kind = "SlugExists")
             => /\ projects' = projects
                /\ \E p \in projects : p.slug = req'[r].last.slug]_vars

\* C3: no project whose slug fails ^[a-z0-9-]+$ is ever stored by a
\* project write.
C3_StoredSlugsMatchPattern ==
    \A p \in projects : MatchesSlugPattern(p.slug)

\* the derivation as the claim words it: lowercase, keep word characters,
\* whitespace and hyphens, one hyphen per run of whitespace/hyphens, no
\* hyphen at either end
ClaimedSlug(title) ==
    LET low == [i \in 1..Len(title) |-> LowerChar(title[i])]
        kept == SelectSeq(low, LAMBDA c : IsWordChar(c) \/ c \in Whitespace \/ c = "-")
        sep(c) == c \in Whitespace \/ c = "-"
        marked == [i \in 1..Len(kept) |->
                     IF ~sep(kept[i]) THEN kept[i]
                     ELSE IF i > 1 /\ sep(kept[i - 1]) THEN "" ELSE "-"]
        runs == SelectSeq(marked, LAMBDA c : c # "")
        inner == {i \in 1..Len(runs) : runs[i] # "-"}
    IN  IF inner = {} THEN <<>>
        ELSE SubSeq(runs, CHOOSE i \in inner : \A j \in inner : i <= j,
                          CHOOSE i \in inner : \A j \in inner : i >= j)

\* C4: a project stored from a form with no slug and a title gets the
\* derived slug ("Hello, World! 2024" gives "hello-world-2024", "My Project"
\* gives "my-project"); a supplied non-empty slug is stored as supplied.
C4_StoredSlugIsDerivedOrSupplied ==
    [][\A r \in Requests :
          (CommitStep(r) /\ req'[r].last.kind = "stored") =>
             LET f == req[r].form IN
             \E p \in projects' :
                /\ p.title = f.title
                /\ p.slug = req'[r].last.slug
                /\ f.slug # NoText => p.slug = f.slug
                /\ f.slug = NoText =>
                     /\ p.slug = ClaimedSlug(f.title)
                     /\ f.title = TitleHello => p.slug = SlugHello
                     /\ f.title = TitleMyProject => p.slug = SlugMyProject]_vars

\* both a derived and a supplied slug are stored
C4_Witness ==
    /\ \E p \in projects : p.title = TitleHello /\ p.slug = SlugHello
    /\ \E p \in projects : p.title = TitleBangs /\ p.slug = SlugMyProject

\* C6: the commit of a create whose slug is by then stored for another
\* project is refused by the unique index and stores nothing, so of two
\* creates that both passed the check at most one is stored.
C6_UniqueIndexRefusesSecondInsert ==
    [][\A r \in Requests :
          (CommitStep(r) /\ req[r].op = "create"
             /\ \E p \in projects : p.slug = req[r].model.slug)
          => /\ req'[r].last.kind = "IntegrityError"
             /\ projects' = projects]_vars

\* two creates of one non-empty slug both passed the check; one is stored,
\* the other was refused at commit
C6_Witness ==
    \E r1, r2 \in Requests :
       /\ r1 # r2
       /\ req[r1].last = [kind |-> "stored", op |-> "create", slug |-> SlugMyProject,
                          upload |-> NoUpload]
       /\ req[r2].last = [kind |-> "IntegrityError", op |-> "create", slug |-> SlugMyProject,
                          upload |-> NoUpload]
       /\ Cardinality({p \in projects : p.slug = SlugMyProject}) = 1

(* ------------------------------------------------------------------ *)
(* Properties of generate_slug                                         *)
(* ------------------------------------------------------------------ *)
\* C5 as stated: every text matching ^[a-z0-9-]+$ is returned unchanged by
\* generate_slug.
C5_PatternSlugIsFixedPoint ==
    (slugOut # NotDerived /\ MatchesSlugPattern(slugIn)) => slugOut = slugIn

\* lowercase letters, digits and single hyphens between them
IsCleanSlug(t) ==
    /\ t # <<>>
    /\ \A i \in 1..Len(t) : IsSlugChar(t[i])
    /\ t[1] # "-" /\ t[Len(t)] # "-"
    /\ \A i \in 1..(Len(t) - 1) : ~(t[i] = "-" /\ t[i + 1] = "-")

\* C5 amended: every non-empty text of lowercase letters, digits and hyphens
\* with no hyphen at either end and no two adjacent hyphens is returned
\* unchanged by generate_slug.
C5_CleanSlugIsFixedPoint ==
    (slugOut # NotDerived /\ IsCleanSlug(slugIn)) => slugOut = slugIn

\* a slug with an inner hyphen was derived from again and came back unchanged
C5_Witness ==
    /\ slugOut = slugIn
    /\ IsCleanSlug(slugIn)
    /\ \E i \in 1..Len(slugIn) : slugIn[i] = "-"

(* ------------------------------------------------------------------ *)
(* Properties of the duration                                          *)
(* ------------------------------------------------------------------ *)
\* the step is a read that showed a duration for the stored row
ShowsDuration == experience' = experience /\ today' = today /\ shown' # NotShown

\* the rendering as the claim words it, from the years and months counted
ClaimedRendering(years, months) ==
    IF years # 0 /\ months # 0
    THEN ToString(years) \o " yr" \o (IF years = 1 THEN "" ELSE "s") \o " "
           \o ToString(months) \o " mo" \o (IF months = 1 THEN "" ELSE "s")
    ELSE IF years # 0 THEN ToString(years) \o " yr" \o (IF years = 1 THEN "" ELSE "s")
    ELSE IF months # 0 THEN ToString(months) \o " mo" \o (IF months = 1 THEN "" ELSE "s")
    ELSE "Less than 1 month"

ClaimedDuration(start, end) ==
    LET borrow == end.month - start.month < 0
    IN  ClaimedRendering(end.year - start.year - (IF borrow THEN 1 ELSE 0),
                         end.month - start.month + (IF borrow THEN MonthsPerYear ELSE 0))

\* C7: every duration shown is the claimed rendering of the year and month
\* differences between the start date and the end date (today when there is
\* no end date); 2022-03-01 to 2022-06-01 shows "3 mos"; 2022-03-01 with no
\* end date shows "2 yrs" on 2024-03-01.
C7_DurationIsClaimedRendering ==
    [][ShowsDuration =>
          LET e == IF experience.end_date # NoDate THEN experience.end_date ELSE today
          IN  /\ shown' = ClaimedDuration(experience.start_date, e)
              /\ (experience.start_date = Date(2022, 3, 1)
                    /\ experience.end_date = Date(2022, 6, 1)) => shown' = "3 mos"
              /\ (experience.start_date = Date(2022, 3, 1)
                    /\ experience.end_date = NoDate
                    /\ today = Date(2024, 3, 1)) => shown' = "2 yrs"]_vars

\* a shown duration read back as elapsed months: "N yr(s) M mo(s)" is
\* 12 N + M, "Less than 1 month" is 0
ShownMonths(text) ==
    CHOOSE n \in 0..(MonthsPerYear * (MaxYears + 1)) :
        text = ClaimedRendering(n \div MonthsPerYear, n % MonthsPerYear)

\* C8: for a row with no end date, a duration shown later is never shorter
\* than one shown earlier.
C8_DurationNeverDecreases ==
    [][(ShowsDuration /\ experience.end_date = NoDate /\ shown # NotShown)
          => ShownMonths(shown') >= ShownMonths(shown)]_vars

(* ------------------------------------------------------------------ *)
(* Properties of validation                                            *)
(* ------------------------------------------------------------------ *)
\* the rules a contact submission breaks
ContactViolations(d) ==
    (IF d.name = Missing \/ d.name = NoText THEN {"name"} ELSE {})
    \cup (IF d.email = Missing \/ ~IsEmail(d.email) THEN {"email"} ELSE {})
    \cup (IF d.message = Missing \/ Len(Strip(d.message)) < MinMessageLen
          THEN {"message length"} ELSE {})
    \cup (IF d.extra # {} THEN {"unknown key"} ELSE {})

ContactReported(errors) ==
    (IF \E e \in errors : e[1] = "name" THEN {"name"} ELSE {})
    \cup (IF \E e \in errors : e[1] = "email" THEN {"email"} ELSE {})
    \cup (IF \E e \in errors : e[1] = "message" \/ e = MessageContentError
          THEN {"message length"} ELSE {})
    \cup (IF \E e \in errors : e[2] = "Unknown field." THEN {"unknown key"} ELSE {})

\* the rules an Experience breaks
ExperienceViolations(d, now) ==
    (IF d.company = Missing THEN {"company"} ELSE {})
    \cup (IF d.start_date = NoDate THEN {"start required"} ELSE {})
    \cup (IF d.start_date # NoDate /\ d.end_date # NoDate
             /\ ~DateLT(d.start_date, d.end_date)
          THEN {"end after start"} ELSE {})
    \cup (IF d.start_date # NoDate /\ DateLT(now, d.start_date)
          THEN {"start not in the future"} ELSE {})

ExperienceReported(errors) ==
    (IF RequiredError("company") \in errors THEN {"company"} ELSE {})
    \cup (IF RequiredError("startDate") \in errors THEN {"start required"} ELSE {})
    \cup (IF EndNotAfterStart \in errors THEN {"end after start"} ELSE {})
    \cup (IF StartInFuture \in errors THEN {"start not in the future"} ELSE {})

\* the rules a list of social links breaks
KnownDomainMissing(link) ==
    \/ Lower(link.platform) = PlatformGithub /\ ~Contains(link.url, DomainGithub)
    \/ Lower(link.platform) = PlatformLinkedin /\ ~Contains(link.url, DomainLinkedin)
    \/ /\ Lower(link.platform) = PlatformTwitter
       /\ ~Contains(link.url, DomainTwitter)
       /\ ~Contains(link.url, DomainX)

SiteMetaViolations(d) ==
    LET links == d.social_links
    IN  (IF \E i, j \in 1..Len(links) :
                i # j /\ Lower(links[i].platform) = Lower(links[j].platform)
         THEN {"unique platform"} ELSE {})
        \cup (IF \E i \in 1..Len(links) : KnownDomainMissing(links[i])
              THEN {"known domain"} ELSE {})
        \cup (IF \E i \in 1..Len(links) : ~IsUrl(links[i].url)
              THEN {"url"} ELSE {})

SiteMetaReported(errors) ==
    (IF DuplicatePlatform \in errors THEN {"unique platform"} ELSE {})
    \cup (IF errors \cap {GithubDomain, LinkedinDomain, TwitterDomain} # {}
          THEN {"known domain"} ELSE {})
    \cup (IF \E e \in errors : e[3] = "url" THEN {"url"} ELSE {})

\* C9: whatever input a load is handed, the errors it reports name every
\* rule the input breaks, not only the first one found.
C9_EveryViolatedRuleReported ==
    /\ cand.kind = "contact" =>
          ContactViolations(cand.data) \subseteq ContactReported(verdict)
    /\ cand.kind = "experience" =>
          ExperienceViolations(cand.data, cand.now) \subseteq ExperienceReported(verdict)
    /\ cand.kind = "site_meta" =>
          SiteMetaViolations(cand.data) \subseteq SiteMetaReported(verdict)

(* ------------------------------------------------------------------ *)
(* Properties of the contact endpoint                                  *)
(* ------------------------------------------------------------------ *)
\* the last submission's message is long enough raw and too short trimmed
PaddedShortSubmitted ==
    /\ submitted.json
    /\ submitted.message # Missing
    /\ Len(submitted.message) >= MinMessageLen
    /\ Len(Strip(submitted.message)) < MinMessageLen

\* C10: a submission whose message is shorter than 10 characters once
\* trimmed, though 10 or more raw, is answered with a rejection carrying a
\* message-length violation, and no stored message has such a text.
C10_PaddedShortMessageRejected ==
    /\ PaddedShortSubmitted =>
          /\ response.status = 400
          /\ \E e \in response.details :
                e \in {MessageLengthError, MessageContentError}
    /\ \A m \in messages : Len(Strip(m.message)) >= MinMessageLen

\* the last submission is JSON, carries a valid name and a valid email, a
\* message and nothing else
OnlyMessageInQuestion ==
    /\ submitted.json
    /\ submitted.name # Missing
    /\ Len(submitted.name) \in MinNameLen..MaxNameLen
    /\ submitted.email # Missing
    /\ IsEmail(submitted.email) /\ Len(submitted.email) <= MaxEmailLen
    /\ submitted.message # Missing
    /\ submitted.extra = {}

\* C11: with name and email valid, a submission passes validation exactly
\* when its message, once trimmed, is 10 to 5000 characters long, however
\* much whitespace surrounds it.
C11_LengthBoundOnTrimmedMessage ==
    OnlyMessageInQuestion =>
        (response.code # "VALIDATION_ERROR"
            <=> Len(Strip(submitted.message)) \in MinMessageLen..MaxMessageLen)

\* C12: a submission carrying any key besides name, email and message is
\* answered 400 with a validation error, which for a JSON payload names
\* each extra key as unknown, and the stored messages stay as they were.
C12_ExtraKeyRejected ==
    [][submitted'.extra # {} =>
          /\ response'.status = 400
          /\ response'.code = "VALIDATION_ERROR"
          /\ submitted'.json =>
                \A k \in submitted'.extra : UnknownError(k) \in response'.details
          /\ messages' = messages]_vars

\* an otherwise valid submission carrying createdAt has been turned down
C12_Witness ==
    /\ submitted.json
    /\ submitted.name = NameAl /\ submitted.email = EmailGood
    /\ submitted.message = Letters(MinMessageLen)
    /\ submitted.extra = {"createdAt"}
    /\ response.status = 400
    /\ response.details = {UnknownError("createdAt")}
    /\ messages = {}

(* ------------------------------------------------------------------ *)
(* Properties of Experience writes and of the schemas' rules           *)
(* ------------------------------------------------------------------ *)
\* C13: a stored Experience has no end date or an end date strictly after
\* its start date.
C13_StoredEndAfterStart ==
    experience # NoExperience =>
        \/ experience.end_date = NoDate
        \/ DateLT(experience.start_date, experience.end_date)

\* the Experience last loaded breaks no rule other than, possibly, those on
\* the start date
OtherwiseValidExperience ==
    /\ cand.kind = "experience"
    /\ cand.data.company # Missing
    /\ \/ cand.data.end_date = NoDate
       \/ cand.data.start_date = NoDate
       \/ DateLT(cand.data.start_date, cand.data.end_date)

\* C14: an otherwise valid Experience is rejected when its start date is
\* missing or after today, and accepted when it is today or earlier.
C14_StartRequiredAndNotFuture ==
    OtherwiseValidExperience =>
        IF cand.data.start_date = NoDate
        THEN verdict = {RequiredError("startDate")}
        ELSE IF DateLT(cand.now, cand.data.start_date)
        THEN verdict = {StartInFuture}
        ELSE verdict = {}

\* a start date one day after today has been rejected, with a later end date
C14_Witness ==
    /\ OtherwiseValidExperience
    /\ cand.now = Date(BaseYear + 1, 1, 1)
    /\ cand.data.start_date = Date(BaseYear + 1, 1, 2)
    /\ cand.data.end_date = Date(BaseYear + 1, 2, 1)
    /\ verdict = {StartInFuture}

\* two entries of the list carry the same platform name, case aside
HasDuplicatePlatform(links) ==
    \E i, j \in 1..Len(links) :
        i # j /\ Lower(links[i].platform) = Lower(links[j].platform)

\* C15: a social-links list with two entries whose platform names are equal
\* case-insensitively is rejected with the duplicate-platform violation,
\* wherever the two entries stand.
C15_DuplicatePlatformReported ==
    (cand.kind = "site_meta" /\ HasDuplicatePlatform(cand.data.social_links))
        => DuplicatePlatform \in verdict

\* the platform names that carry a domain rule
RecognizedPlatforms == {PlatformGithub, PlatformLinkedin, PlatformTwitter}

\* C16: an accepted list has, for every link whose lower-cased platform is
\* github, linkedin or twitter, the platform's domain in the URL; a list of
\* well-formed links with distinct platforms outside those three is accepted
\* whatever its URLs.
C16_RecognizedPlatformNeedsDomain ==
    cand.kind = "site_meta" =>
        LET links == cand.data.social_links
        IN  /\ verdict = {} =>
                  \A i \in 1..Len(links) : ~KnownDomainMissing(links[i])
            /\ (/\ \A i \in 1..Len(links) :
                       /\ Lower(links[i].platform) \notin RecognizedPlatforms
                       /\ IsUrl(links[i].url)
                 /\ ~HasDuplicatePlatform(links)) => verdict = {}

\* a list with "GitHub" on github.com and "X" on another domain was accepted
C16_Witness ==
    /\ cand.kind = "site_meta"
    /\ Len(cand.data.social_links) = 2
    /\ Lower(cand.data.social_links[1].platform) = PlatformGithub
    /\ cand.data.social_links[1].platform # PlatformGithub
    /\ Contains(cand.data.social_links[1].url, DomainGithub)
    /\ Lower(cand.data.social_links[2].platform) = <<"x">>
    /\ ~Contains(cand.data.social_links[2].url, DomainX)
    /\ verdict = {}

(* ------------------------------------------------------------------ *)
(* Properties of admin writes of site metadata                         *)
(* ------------------------------------------------------------------ *)
\* C17: an admin SiteMeta write whose non-empty social-links text does not
\* decode as JSON ends with the one "must be valid JSON" error and leaves
\* every stored row as it was.
C17_InvalidJsonRejected ==
    [][(metaOut'.text # NoText /\ ~json_loads(metaOut'.text).ok) =>
          /\ metaOut'.error = InvalidJsonError
          /\ ~metaOut'.stored
          /\ metas' = metas]_vars

\* an update with undecodable text was turned down on a row holding a link
C17_Witness ==
    /\ metaOut.op = "update"
    /\ metaOut.text = LinksTextSingleQuotes
    /\ metaOut.error = InvalidJsonError
    /\ metas[metaOut.id].social_links = json_loads(LinksTextOne).v

\* the decoded value read as the list of links the schema validates
AsLinks(value) ==
    [i \in 1..Len(value.v) |->
        [platform |-> value.v[i].v[KeyPlatform].v,
         url |-> value.v[i].v[KeyUrl].v,
         icon |-> value.v[i].v[KeyIcon].v]]

\* a list of objects, each with text under platform, url and icon, that
\* passes the schema's social-link validation
WellFormedLinks(value) ==
    /\ value.t = "list"
    /\ \A i \in 1..Len(value.v) :
          /\ value.v[i].t = "obj"
          /\ {KeyPlatform, KeyUrl, KeyIcon} \subseteq DOMAIN value.v[i].v
          /\ \A k \in {KeyPlatform, KeyUrl, KeyIcon} : value.v[i].v[k].t = "str"
    /\ SiteMetaLoad([social_links |-> AsLinks(value)]) = {}

\* C18: the social links stored by an admin write whose text decoded are a
\* list of objects with platform, url and icon, without duplicate platform
\* and with known-platform URLs on their domain.
C18_StoredLinksValidated ==
    (metaOut.stored /\ metaOut.text # NoText) =>
        WellFormedLinks(metas[metaOut.id].social_links)

(* ------------------------------------------------------------------ *)
(* Properties of the list-shaped admin fields                          *)
(* ------------------------------------------------------------------ *)
\* a stored list of trimmed, non-empty strings none of which holds sep
IsCleanList(value, sep) ==
    /\ value.list
    /\ \A i \in 1..Len(value.v) :
          /\ value.v[i] # <<>>
          /\ value.v[i][1] \notin Whitespace
          /\ value.v[i][Len(value.v[i])] \notin Whitespace
          /\ \A k \in 1..Len(value.v[i]) : value.v[i][k] # sep

\* the edit form is posted as it was opened
SavesUnchangedForm == editForm # NoEdit /\ editForm' = NoEdit

\* C19: a stored tech or bullets list of trimmed, non-empty strings free of
\* the separator is the same list, in the same order, after the edit form
\* has been opened and saved untouched.
C19_ListFieldsRoundTrip ==
    [][SavesUnchangedForm =>
          /\ IsCleanList(experience.tech, ",") => experience'.tech = experience.tech
          /\ IsCleanList(experience.bullets, "\n")
                => experience'.bullets = experience.bullets]_vars

\* the text between the first and the last character that is not whitespace
Trimmed(s) ==
    IF \A i \in 1..Len(s) : s[i] \in Whitespace THEN <<>>
    ELSE SubSeq(s,
                CHOOSE i \in 1..Len(s) :
                    s[i] \notin Whitespace /\ \A j \in 1..(i - 1) : s[j] \in Whitespace,
                CHOOSE i \in 1..Len(s) :
                    s[i] \notin Whitespace /\ \A j \in (i + 1)..Len(s) : s[j] \in Whitespace)

\* the entries of t read left to right: cur is the entry being read from
\* position i on; an entry that trims to nothing is dropped
RECURSIVE ClaimedEntries(_, _, _, _)
ClaimedEntries(t, sep, i, cur) ==
    LET done == IF Trimmed(cur) = <<>> THEN <<>> ELSE <<Trimmed(cur)>>
    IN  IF i > Len(t) THEN done
        ELSE IF t[i] = sep THEN done \o ClaimedEntries(t, sep, i + 1, <<>>)
        ELSE ClaimedEntries(t, sep, i + 1, Append(cur, t[i]))

\* C20: after an admin Experience write the stored tech is the list of the
\* trimmed, non-empty comma-separated entries of the submitted text, in
\* order, and the stored bullets that of its lines; the empty list when the
\* text is empty or holds only separators and whitespace.
C20_StoredListIsEntriesOfText ==
    experience # NoExperience =>
        /\ experience.tech =
              [list |-> TRUE, v |-> ClaimedEntries(written.tech, ",", 1, <<>>)]
        /\ experience.bullets =
              [list |-> TRUE, v |-> ClaimedEntries(written.bullets, "\n", 1, <<>>)]

(* ------------------------------------------------------------------ *)
(* Properties of the site-metadata read                                *)
(* ------------------------------------------------------------------ *)
\* C21: every representation GET /api/meta serves carries socialLinks as a
\* sequence: the empty one when the stored value is null, never null.
C21_ListFieldIsSequence ==
    metaRead.status = 200 => metaRead.socialLinks.t = "list"

\* C22: with no stored record the read answers with the default empty
\* structure; with one or more stored it answers with success and with the
\* representation of one of the stored records.
C22_ReadServesOneStoredRecord ==
    metaRead # NoMetaRead =>
        IF metas = <<>>
        THEN metaRead = DefaultMeta
        ELSE /\ metaRead.status = 200
             /\ \E i \in 1..Len(metas) : metaRead.id = metas[i].id

(* ------------------------------------------------------------------ *)
(* Properties of the contact endpoint and of the stored messages       *)
(* ------------------------------------------------------------------ *)
\* the submitted payload is among the stored rows
SubmittedIsStored ==
    \E m \in messages :
        /\ m.name = submitted.name
        /\ m.email = submitted.email
        /\ m.message = submitted.message

\* C23: when the commit of a valid submission went through, the message is
\* stored and the answer is the success outcome 201, whether the mail service
\* accepted the notification, refused it, was not configured or raised.
C23_StoredSubmissionAnswered201 ==
    response.commit = "committed" =>
        /\ response.status = 201
        /\ response.code = "success"
        /\ SubmittedIsStored

\* the mail client raised, and the submitter got 201 for a stored message
C23_Witness ==
    /\ response.commit = "committed"
    /\ response.sendgrid = "raises"
    /\ response.status = 201
    /\ SubmittedIsStored

\* C24: a step never removes a stored message nor changes its name, email,
\* message or creation instant; a message that appears was submitted through
\* the public endpoint in that step, answered 201, and has replied = FALSE.
C24_MessagesOnlyChangeReplied ==
    [][/\ \A m \in messages : \E n \in messages' :
             /\ n.id = m.id
             /\ n.name = m.name
             /\ n.email = m.email
             /\ n.message = m.message
             /\ n.created_at = m.created_at
       /\ \A n \in messages' :
             (\A m \in messages : m.id # n.id) =>
                 /\ n.replied = FALSE
                 /\ n.name = submitted'.name
                 /\ n.email = submitted'.email
                 /\ n.message = submitted'.message
                 /\ response'.status = 201]_vars

\* the administrator ticked replied on a stored message
C24_Witness ==
    \E m \in messages :
        /\ m.replied
        /\ m.name = NameAl
        /\ m.message = submitted.message

\* C29: a submission that is not JSON, is empty, fails validation or whose
\* commit fails leaves the stored messages as they were, has no notification
\* attempted and is answered 400 (validation error) or 500 (server error);
\* a notification is attempted only for a valid submission that is committed.
C29_NotifyOnlyAfterCommit ==
    [][/\ (\/ ~submitted'.json
           \/ IsEmptyPayload(submitted')
           \/ ContactLoad(submitted') # {}
           \/ response'.commit = "failed") =>
              /\ messages' = messages
              /\ response'.sendgrid = "not attempted"
              /\ response'.mail = "not attempted"
              /\ \/ response'.status = 400 /\ response'.code = "VALIDATION_ERROR"
                 \/ response'.status = 500 /\ response'.code = "SERVER_ERROR"
       /\ response'.sendgrid # "not attempted" =>
              /\ submitted'.json
              /\ ContactLoad(submitted') = {}
              /\ response'.commit = "committed"
              /\ \E m \in messages' : m.message = submitted'.message]_vars

\* a valid submission whose commit failed: 500, nothing stored, no mail
C29_Witness ==
    /\ submitted.json
    /\ ContactLoad(submitted) = {}
    /\ response.commit = "failed"
    /\ response.status = 500
    /\ response.sendgrid = "not attempted"
    /\ messages = {}

(* ------------------------------------------------------------------ *)
(* Properties of the project listing                                   *)
(* ------------------------------------------------------------------ *)
\* the listing holds exactly the rows of the set, each once, by order index
\* ascending and, within one order index, by creation time descending
ListsExactly(items, rows) ==
    /\ {items[i] : i \in 1..Len(items)} = rows
    /\ Len(items) = Cardinality(rows)
    /\ \A i, j \in 1..Len(items) :
          i < j =>
              \/ items[i].order_index < items[j].order_index
              \/ /\ items[i].order_index = items[j].order_index
                 /\ items[i].created_at >= items[j].created_at

\* C25: featured = true/1/yes lists exactly the flagged projects,
\* false/0/no exactly the unflagged ones, no parameter all of them, each
\* ordered by order index ascending then creation time descending; any
\* other value is answered 400 with no listing. Case is ignored.
C25_ListingFilteredAndOrdered ==
    listing # NoListing =>
        IF listing.param = NoParam
        THEN listing.status = 200 /\ ListsExactly(listing.items, catalog)
        ELSE IF Lower(listing.param) \in {<<"t","r","u","e">>, <<"1">>, <<"y","e","s">>}
        THEN /\ listing.status = 200
             /\ ListsExactly(listing.items, {p \in catalog : p.featured})
        ELSE IF Lower(listing.param) \in {<<"f","a","l","s","e">>, <<"0">>, <<"n","o">>}
        THEN /\ listing.status = 200
             /\ ListsExactly(listing.items, {p \in catalog : ~p.featured})
        ELSE listing.status = 400 /\ listing.items = <<>>

\* "True" listed two flagged projects of one order index, the newer first,
\* out of a table that also holds an unflagged one
C25_Witness ==
    /\ listing.param = <<"T","r","u","e">>
    /\ listing.status = 200
    /\ Len(listing.items) = 2
    /\ listing.items[1].order_index = listing.items[2].order_index
    /\ listing.items[1].created_at > listing.items[2].created_at
    /\ \E p \in catalog : ~p.featured

(* ------------------------------------------------------------------ *)
(* Properties of the cover-image upload                                *)
(* ------------------------------------------------------------------ *)
\* the part of the name after its last dot, lower-cased, is one of the five
HasAllowedExtension(name) ==
    \E k \in 1..Len(name) :
        /\ name[k] = "."
        /\ \A j \in (k + 1)..Len(name) : name[j] # "."
        /\ Lower(SubSeq(name, k + 1, Len(name))) \in
              {<<"j","p","g">>, <<"j","p","e","g">>, <<"p","n","g">>,
               <<"w","e","b","p">>, <<"g","i","f">>}

\* C26: a write that carries an uploaded file is turned down for its file
\* type exactly when the sanitized name has no dot or its lower-cased
\* extension is not jpg, jpeg, png, webp or gif, and then no stored project
\* changes; a write that goes on to the commit or is stored carries
\* content/images/projects/ followed by the sanitized name as its reference.
C26_UploadAcceptedByExtension ==
    [][\A r \in Requests :
          (req'[r] # req[r] /\ req[r].pc = "idle"
           /\ (IF req'[r].pc = "checked" THEN req'[r].form.upload
                                         ELSE req'[r].last.upload) # NoUpload) =>
              LET upload == IF req'[r].pc = "checked" THEN req'[r].form.upload
                                                      ELSE req'[r].last.upload
                  name == secure_filename(upload)
              IN  IF HasAllowedExtension(name)
                  THEN /\ req'[r].last.kind # "InvalidFileType"
                       /\ req'[r].pc = "checked" =>
                              req'[r].model.cover_image =
                                  <<"c","o","n","t","e","n","t","/","i","m","a","g","e","s","/",
                                    "p","r","o","j","e","c","t","s","/">> \o name
                  ELSE /\ req'[r].pc = "idle"
                       /\ req'[r].last.kind \in {"InvalidFileType", "SlugExists"}
                       /\ projects' = projects]_vars

\* "my pic.png" was stored under its sanitized name, and a later update of
\* that project with "a.tar.gz" was turned down, leaving the reference
C26_Witness ==
    /\ \E p \in projects :
          p.cover_image = ImageBase \o <<"m","y","_","p","i","c",".","p","n","g">>
    /\ \E r \in Requests :
          /\ req[r].last.kind = "InvalidFileType"
          /\ req[r].last.op = "update"
          /\ req[r].last.upload = FileTarGz

(* ------------------------------------------------------------------ *)
(* Properties of the field-name transforms                             *)
(* ------------------------------------------------------------------ *)
\* C27: an internal field name of the schemas taken to its external form and
\* back is the name itself, and so is an external name of the read contract
\* taken to its internal form and back.
C27_TransformsAreInverses ==
    Len(converted) >= 2 =>
        /\ (/\ fieldName \in InternalNames
            /\ converted[1].by = "snake_to_camel"
            /\ converted[2].by = "camel_to_snake") => converted[2].out = fieldName
        /\ (/\ fieldName \in ExternalNames
            /\ converted[1].by = "camel_to_snake"
            /\ converted[2].by = "snake_to_camel") => converted[2].out = fieldName

\* social_links went to socialLinks and came back
C27_Witness ==
    /\ fieldName = <<"s","o","c","i","a","l","_","l","i","n","k","s">>
    /\ Len(converted) >= 2
    /\ converted[1] = [by |-> "snake_to_camel",
                       out |-> <<"s","o","c","i","a","l","L","i","n","k","s">>]
    /\ converted[2] = [by |-> "camel_to_snake", out |-> fieldName]

(* ------------------------------------------------------------------ *)
(* Properties of the slug derived from a title                         *)
(* ------------------------------------------------------------------ *)
\* C28: the slug derived from a non-empty title is non-empty and made of
\* lowercase letters, digits and hyphens only.
C28_DerivedSlugNonEmptyAndPatterned ==
    (slugIn # NoText /\ slugOut # NotDerived) =>
        /\ slugOut # <<>>
        /\ \A i \in 1..Len(slugOut) : slugOut[i] \in Lowercase \cup Digits \cup {"-"}

(* ------------------------------------------------------------------ *)
(* Properties of the admin session                                     *)
(* ------------------------------------------------------------------ *)
\* positions of the log that decide the session: a login with the configured
\* username and password, or a logout
Deciding ==
    {k \in 1..Len(authLog) :
        \/ authLog[k].kind = "logout"
        \/ /\ authLog[k].kind = "login"
           /\ authLog[k].username = "admin"
           /\ authLog[k].password = "admin"}

\* the last deciding request of the session was a matching login
LoggedIn ==
    /\ Deciding # {}
    /\ authLog[CHOOSE k \in Deciding : \A j \in Deciding : j <= k].kind = "login"

\* C30: the admin index or a model view serves its content only in a session
\* whose last login-with-matching-credentials or logout was such a login;
\* the authenticated flag is set exactly then, so a login that does not
\* match never sets it and a logout always clears it.
C30_AdminOnlyAfterMatchingLogin ==
    /\ (page.view \in AdminViews /\ page.served = "content") => LoggedIn
    /\ is_authenticated <=> LoggedIn

\* a view served its content after a matching login, and a login with a
\* wrong password is in the log
C30_Witness ==
    /\ page.view = "admin_contact"
    /\ page.served = "content"
    /\ Len(authLog) >= 2
    /\ authLog[1].kind = "login" /\ authLog[1].password = "guess"
    /\ authLog[2].kind = "login" /\ authLog[2].password = "admin"

====
